---- MODULE Spec2Model ----
(***************************************************************************)
(* Model of the annotation editor of immedipaste (annotation_editor.py):   *)
(* the edit session (undo/redo stacks, in-progress annotation, text drag,  *)
(* text input), the pointer/keyboard handlers, the renderer's and the      *)
(* compositor's draw lists, and the save/cancel/close paths.               *)
(*                                                                         *)
(* Image-space coordinates are exact rationals.  With the layout scale     *)
(* written as the reduced fraction ScaleNum/ScaleDen, every image-space    *)
(* value the code computes is a multiple of 1/ScaleNum, so the model       *)
(* stores image-space values as integers in units of 1/ScaleNum pixel.     *)
(* Sequence indices are 1-based: Python index i is index i+1 here.         *)
(***************************************************************************)
EXTENDS Integers, Sequences, FiniteSets, TLC

(* ---- bounds of the model ---- *)
MaxAnnotations == 2
MaxAnnotationsScaled == 1
MaxPoints == 2

(* ---- program constants ---- *)
DEFAULT_STROKE_WIDTH == 3
DEFAULT_FONT_SIZE == 16
MIN_DRAG_SIZE == 3
HIT_MARGIN == 4
HEAD_WIDTH_FACTOR == 4
HEAD_CAP_NUM == 9
HEAD_CAP_DEN == 20
HEAD_MIN == 6
MAX_HISTORY == 5
LOCK_TIMEOUT_SECONDS == 3600

(* sentinels of the application and of the lock file: no overlay or editor
   (session numbers start at 1), no saved file, no file behind the lock
   path, no timestamp read *)
NoRef == 0
NoPath == 0
NoFile == 0
NoTimestamp == -1

(* bounds of the capture sessions and of the processes started *)
MaxCaptures == 6
MaxProcs == 2
MaxTicks == 3
TICK_SECONDS == 1800
Procs == 1..MaxProcs
CONFIG_VERSION == 5
MaxMigrations == 2
MaxChanges == 3
MaxKeyPresses == 3
Key_Space == 32
Key_Comma == 44
Key_0 == 48
Key_9 == 57
Key_A == 65
Key_Z == 90
Key_Escape == 16777216
Key_Tab == 16777217
Key_Backspace == 16777219
Key_Return == 16777220
Key_Enter == 16777221
Key_Insert == 16777222
Key_Delete == 16777223
Key_Home == 16777232
Key_End == 16777233
Key_Left == 16777234
Key_Up == 16777235
Key_Right == 16777236
Key_Down == 16777237
Key_PageUp == 16777238
Key_PageDown == 16777239
Key_Shift == 16777248
Key_Control == 16777249
Key_Meta == 16777250
Key_Alt == 16777251
Key_F1 == 16777264
Key_F12 == 16777275

(* ---- environment: screen, captured images, toolbar geometry ---- *)
Screen == [w |-> 240, h |-> 180]

Buttons == {"left", "right", "middle"}
Tools == {"freehand", "arrow", "oval", "rect", "text"}
Modifiers == {"shift", "ctrl", "alt"}
_DEFAULT_MODIFIER_TOOLS == [shift |-> "arrow", ctrl |-> "oval", alt |-> "text"]

(* screen points the pointer events are drawn from *)
PtOut == [x |-> 100, y |-> 2]
PtEdge == [x |-> 100, y |-> 175]
PtToolbar == [x |-> 100, y |-> 20]
PtA == [x |-> 100, y |-> 100]
PtNear == [x |-> 101, y |-> 102]
PtFar == [x |-> 30, y |-> 60]

(* pointer-move events: a move far from the press point (above the image,
   clamped to its top edge), and for the sessions on the large image also a
   move a few pixels from the press point *)
MovePoints == {PtOut}
MovePointsScaled == {PtOut, PtNear}

(* pointer-down events: button, screen point, held modifiers *)
PressInputs ==
  {<<"left", PtA, {}>>, <<"left", PtA, {"shift"}>>, <<"left", PtA, {"ctrl"}>>,
   <<"left", PtA, {"shift", "ctrl"}>>, <<"left", PtFar, {"alt"}>>,
   <<"left", PtOut, {}>>, <<"left", PtEdge, {"alt"}>>,
   <<"left", PtToolbar, {}>>, <<"right", PtA, {}>>, <<"middle", PtA, {}>>}

(* pointer-down events of the sessions with configured modifier tools: every
   combination of held modifiers *)
PressInputsTools ==
  {<<"left", PtA, m>> : m \in SUBSET Modifiers} \cup {<<"right", PtA, {}>>}

(* modifier_tools arguments of the constructor: the default, and mappings
   with slots set to "none" or to other tools *)
ModifierToolConfigs ==
  {_DEFAULT_MODIFIER_TOOLS,
   [shift |-> "none", ctrl |-> "oval", alt |-> "text"],
   [shift |-> "none", ctrl |-> "none", alt |-> "rect"],
   [shift |-> "none", ctrl |-> "none", alt |-> "none"],
   [shift |-> "text", ctrl |-> "freehand", alt |-> "arrow"]}

(* pointer-down events of the sessions on the large image *)
PressInputsScaled ==
  {<<"left", PtA, {}>>, <<"left", PtA, {"shift"}>>, <<"left", PtA, {"ctrl"}>>,
   <<"left", PtEdge, {"alt"}>>, <<"left", PtOut, {}>>,
   <<"left", PtToolbar, {}>>, <<"right", PtA, {}>>, <<"middle", PtA, {}>>}

(* captured images: one that fits the screen (scale 1) and one that is
   larger than the screen (scale 6/7, fractional display height) *)
SmallImage == [w |-> 200, h |-> 150]
LargeImage == [w |-> 280, h |-> 200]

(* screen and image sizes of the sessions that exercise the layout: an image
   centred at scale 1, one limited by the screen width (fractional display
   height), one limited by the screen height, one with odd margins, and one
   that fills the screen exactly *)
Geometries ==
  {<<[w |-> 400, h |-> 300], SmallImage>>,
   <<Screen, LargeImage>>,
   <<Screen, [w |-> 250, h |-> 300]>>,
   <<[w |-> 241, h |-> 181], SmallImage>>,
   <<Screen, [w |-> 240, h |-> 180]>>}

(* pointer positions of those sessions: a point inside every image, and
   points far outside the screen on either side *)
PtIn == [x |-> 150, y |-> 100]
PtFarAbove == [x |-> -9999, y |-> -9999]
PtFarBelow == [x |-> 99999, y |-> 99999]
MovePointsLayout == {PtFarAbove, PtFarBelow}
PressInputsLayout ==
  {<<"left", PtIn, {}>>, <<"left", PtEdge, {"alt"}>>,
   <<"left", PtFarAbove, {}>>, <<"right", PtIn, {}>>}

(* sessions that draw arrows: pointer-downs with Shift held, moves that
   give a short arrow (5 screen pixels) and a long one, and the ends and an
   inner value of the stroke width spin box range *)
PtShort == [x |-> 104, y |-> 103]
MovePointsArrow == {PtShort, PtOut}
PressInputsArrow == {<<"left", PtA, {"shift"}>>, <<"right", PtA, {}>>}
ArrowWidths == {1, 12, 20}

(* pointer-downs of the sessions that watch the paint passes (a freehand
   stroke, an arrow, a cancel) and of the sessions that call _composite()
   (a freehand stroke, a cancel) *)
PressInputsPaint ==
  {<<"left", PtA, {}>>, <<"left", PtA, {"shift"}>>, <<"right", PtA, {}>>}
PressInputsCompose == {<<"left", PtA, {}>>, <<"right", PtA, {}>>}

(* pointer-downs of the sessions that place texts: the text tool (Alt) at
   two places of the image *)
PressInputsText == {<<"left", PtFar, {"alt"}>>, <<"left", PtA, {"alt"}>>}

(* contents the text input can hold when Enter is pressed (QLineEdit.text(),
   read by _on_confirm): sequences of characters *)
Texts == {<< >>, <<" ">>, <<" ", "a", " ">>}
Whitespace == {" "}

NoAnn == [kind |-> "none"]
NoPoint == [none |-> TRUE]
NoInput == [none |-> TRUE]
NoIdx == 0
NoImage == <<[none |-> TRUE]>>

(* ---- arithmetic helpers ---- *)
Min(a, b) == IF a <= b THEN a ELSE b
Max(a, b) == IF a >= b THEN a ELSE b
Abs(a) == IF a >= 0 THEN a ELSE -a

RECURSIVE GCD(_, _)
GCD(a, b) == IF b = 0 THEN a ELSE GCD(b, a % b)

(* ---- _compute_layout: image rect and scale (as a reduced fraction) ---- *)
(* variant: the scale is not capped at 1, small images are enlarged *)
ComputeLayout_Upscale(sw, sh, iw, ih) ==
  IF iw <= 0 \/ ih <= 0
  THEN [x |-> 0, y |-> 0, w |-> sw, h |-> sh, num |-> 1, den |-> 1]
  ELSE LET byW == sw * ih <= sh * iw
           n0 == IF byW THEN sw ELSE sh
           d0 == IF byW THEN iw ELSE ih
           g == GCD(n0, d0)
           n == n0 \div g
           d == d0 \div g
           dw == (iw * n) \div d
           dh == (ih * n) \div d
       IN [x |-> (sw - dw) \div 2, y |-> (sh - dh) \div 2,
           w |-> dw, h |-> dh, num |-> n, den |-> d]

ComputeLayout(sw, sh, iw, ih) ==
  IF iw <= 0 \/ ih <= 0
  THEN [x |-> 0, y |-> 0, w |-> sw, h |-> sh, num |-> 1, den |-> 1]
  ELSE LET one == sw >= iw /\ sh >= ih
           byW == sw * ih <= sh * iw
           n0 == IF one THEN 1 ELSE IF byW THEN sw ELSE sh
           d0 == IF one THEN 1 ELSE IF byW THEN iw ELSE ih
           g == GCD(n0, d0)
           n == n0 \div g
           d == d0 \div g
           dw == (iw * n) \div d
           dh == (ih * n) \div d
       IN [x |-> (sw - dw) \div 2, y |-> (sh - dh) \div 2,
           w |-> dw, h |-> dh, num |-> n, den |-> d]

(* ---- toolbar reads (the colour button, the font size spin box and the *)
(* arrow style are left at their defaults in this model) ---- *)
current_color == "red"
current_font_size == DEFAULT_FONT_SIZE
current_arrow_style == "standard"

VARIABLES screen, img, layout, save_to_disk, _modifier_tools, width_spin,
          painted,
          platform_name, annotate_captures, capturing, overlay_ref,
          editor_ref, capture_history, last_capture_path, notifications,
          live, started, saved_paths,
          now, lock_path, files, procs,
          saved, closed, drawing, current_ann, drag_start,
          text_input, dragging_text_idx, text_drag_offset,
          undo_stack, redo_stack, cur_tool, undo_enabled, redo_enabled,
          composited, done_calls,
          config, migrate_returns,
          dialog_open, widgets, _save_timer, on_change_calls, bursts,
          changes,
          _value, _recording, changed_emitted, last_event

vars == <<screen, img, layout, save_to_disk, _modifier_tools, width_spin,
          painted,
          platform_name, annotate_captures, capturing, overlay_ref,
          editor_ref, capture_history, last_capture_path, notifications,
          live, started, saved_paths,
          now, lock_path, files, procs,
          saved, closed, drawing, current_ann, drag_start,
          text_input, dragging_text_idx, text_drag_offset,
          undo_stack, redo_stack, cur_tool, undo_enabled, redo_enabled,
          composited, done_calls,
          config, migrate_returns,
          dialog_open, widgets, _save_timer, on_change_calls, bursts,
          changes,
          _value, _recording, changed_emitted, last_event>>

sessionVars == <<drawing, current_ann, drag_start, text_input,
                 dragging_text_idx, text_drag_offset, undo_stack, redo_stack,
                 undo_enabled, redo_enabled>>
closeVars == <<saved, closed, composited, done_calls>>
(* the application object (ImmediPaste) and the capture sessions it runs *)
(* the configuration dictionary handed to migrate_config, the settings
   dialog and one of its hotkey fields *)
migrateVars == <<config, migrate_returns>>
dialogVars == <<dialog_open, widgets, _save_timer, on_change_calls, bursts,
                changes>>
hotkeyVars == <<_value, _recording, changed_emitted, last_event>>
settingsVars == <<migrateVars, dialogVars, hotkeyVars>>

(* what the capture sessions and the lock file never touch: the platform,
   the annotate option and the settings *)
appConfig == <<platform_name, annotate_captures, settingsVars>>
appVars == <<capturing, overlay_ref, editor_ref, capture_history,
             last_capture_path, notifications, live, started, saved_paths>>

(* the lock file and the processes that call acquire_single_instance *)
lockVars == <<now, lock_path, files, procs>>

(* what the editor's event handlers leave alone: the constructor arguments
   and everything outside the editor, and with them the toolbar's spin box
   and the pixels of the last paint pass *)
fixedVars == <<screen, img, layout, save_to_disk, _modifier_tools,
               appConfig, appVars, lockVars>>
configVars == <<fixedVars, width_spin, painted>>

(* AnnotationToolbar.current_width: the value of the stroke width spin box *)
current_width == width_spin

(* _image_rect and _scale, computed once by the constructor *)
Layout == layout

(* the toolbar after adjustSize(), moved to the top centre of the editor *)
ToolbarGeom == [x |-> (screen.w - 120) \div 2, y |-> 8, w |-> 120, h |-> 36]
Unit == Layout.num

(* number of annotations a modelled session may commit: the lists of the
   code are unbounded, the model stops committing at this length *)
CommitLimit ==
  IF img = SmallImage /\ screen = Screen THEN MaxAnnotations
  ELSE MaxAnnotationsScaled

(* ---- _to_image_coords / _clamp_to_image ---- *)
RawImageCoords(sp) ==
  [x |-> (sp.x - Layout.x) * Layout.den, y |-> (sp.y - Layout.y) * Layout.den]

ToImageCoords(sp) ==
  LET p == RawImageCoords(sp)
  IN IF Layout.num <= 0 THEN NoPoint
     ELSE IF p.x < 0 \/ p.y < 0 \/ p.x >= img.w * Unit \/ p.y >= img.h * Unit
          THEN NoPoint
          ELSE p

(* variant: the converted position is returned without clamping *)
ClampToImage_Unclamped(sp) ==
  IF Layout.num <= 0 THEN [x |-> 0, y |-> 0] ELSE RawImageCoords(sp)

ClampToImage(sp) ==
  LET p == RawImageCoords(sp)
  IN IF Layout.num <= 0 THEN [x |-> 0, y |-> 0]
     ELSE [x |-> Max(0, Min(p.x, (img.w - 1) * Unit)),
           y |-> Max(0, Min(p.y, (img.h - 1) * Unit))]

(* QRect.contains(QPoint) on integer rectangles *)
RectContains(r, p) ==
  /\ r.x <= p.x /\ p.x <= r.x + r.w - 1
  /\ r.y <= p.y /\ p.y <= r.y + r.h - 1

(* QRectF(p1, p2).normalized() *)
NormalizedRect(p1, p2) ==
  [x |-> Min(p1.x, p2.x), y |-> Min(p1.y, p2.y),
   w |-> Abs(p2.x - p1.x), h |-> Abs(p2.y - p1.y)]

(* ---- text hit-testing ---- *)
(* QFontMetricsF.boundingRect(text) of the system font at font_size points, *)
(* in pixels: the box starts at the baseline origin, rises by the ascent    *)
(* and is one advance wide per character.                                   *)
FontBoundingRect(text, font_size) ==
  [x |-> 0, y |-> -font_size, w |-> Len(text) * (font_size \div 2),
   h |-> font_size + font_size \div 4]

TextBoundingRect(ann) ==
  LET br == FontBoundingRect(ann.text, ann.font_size)
  IN [x |-> ann.position.x + br.x * Unit, y |-> ann.position.y + br.y * Unit,
      w |-> br.w * Unit, h |-> br.h * Unit]

(* rect.adjust(-4, -4, 4, 4); rect.contains(image_pos) on QRectF: edges count *)
PaddedContains(r, p) ==
  /\ r.x - HIT_MARGIN * Unit <= p.x /\ p.x <= r.x + r.w + HIT_MARGIN * Unit
  /\ r.y - HIT_MARGIN * Unit <= p.y /\ p.y <= r.y + r.h + HIT_MARGIN * Unit

(* variant: the scan runs from the bottom of the stack upwards *)
RECURSIVE HitScan_FromBottom(_, _, _)
HitScan_FromBottom(stack, pos, i) ==
  IF i < 1 THEN NoIdx
  ELSE LET below == HitScan_FromBottom(stack, pos, i - 1)
       IN IF below # NoIdx THEN below
          ELSE IF stack[i].kind = "text"
                  /\ PaddedContains(TextBoundingRect(stack[i]), pos)
               THEN i
               ELSE NoIdx

RECURSIVE HitScan(_, _, _)
HitScan(stack, pos, i) ==
  IF i < 1 THEN NoIdx
  ELSE IF stack[i].kind = "text"
          /\ PaddedContains(TextBoundingRect(stack[i]), pos)
       THEN i
       ELSE HitScan(stack, pos, i - 1)

HitTestText(stack, pos) == HitScan(stack, pos, Len(stack))

(* ---- _tool_from_modifiers ---- *)
(* variant: Ctrl is looked at before Shift *)
ToolFromModifiers_CtrlFirst(mods, modifier_tools, toolbar_tool) ==
  IF mods = {} THEN toolbar_tool
  ELSE LET tool == IF "ctrl" \in mods THEN modifier_tools.ctrl
                   ELSE IF "shift" \in mods THEN modifier_tools.shift
                   ELSE modifier_tools.alt
       IN IF tool = "none" THEN toolbar_tool ELSE tool

ToolFromModifiers(mods, modifier_tools, toolbar_tool) ==
  IF mods = {} THEN toolbar_tool
  ELSE LET tool == IF "shift" \in mods THEN modifier_tools.shift
                   ELSE IF "ctrl" \in mods THEN modifier_tools.ctrl
                   ELSE modifier_tools.alt
       IN IF tool = "none" THEN toolbar_tool ELSE tool

(* ---- str.strip() on a sequence of characters ---- *)
RECURSIVE LStrip(_)
LStrip(s) == IF s # << >> /\ Head(s) \in Whitespace THEN LStrip(Tail(s)) ELSE s

RECURSIVE RStrip(_)
RStrip(s) ==
  IF s # << >> /\ s[Len(s)] \in Whitespace
  THEN RStrip(SubSeq(s, 1, Len(s) - 1)) ELSE s

(* variant: the text is taken as typed *)
Strip_AsTyped(s) == s

Strip(s) == RStrip(LStrip(s))

(* ---- annotation constructors (mousePressEvent, _confirm_text_input) ---- *)
FreehandAnnotation(points) ==
  [kind |-> "freehand", points |-> points, color |-> current_color,
   width |-> current_width]
ArrowAnnotation(start, end) ==
  [kind |-> "arrow", start |-> start, end |-> end, color |-> current_color,
   width |-> current_width, style |-> current_arrow_style]
OvalAnnotation(rect) ==
  [kind |-> "oval", rect |-> rect, color |-> current_color,
   width |-> current_width]
RectAnnotation(rect) ==
  [kind |-> "rect", rect |-> rect, color |-> current_color,
   width |-> current_width]
TextAnnotation(position, text) ==
  [kind |-> "text", position |-> position, text |-> text,
   color |-> current_color, font_size |-> current_font_size]

NewAnnotation(tool, pos) ==
  CASE tool = "freehand" -> FreehandAnnotation(<<pos>>)
    [] tool = "arrow" -> ArrowAnnotation(pos, pos)
    [] tool = "oval" -> OvalAnnotation(NormalizedRect(pos, pos))
    [] tool = "rect" -> RectAnnotation(NormalizedRect(pos, pos))
    [] OTHER -> NoAnn

(* squared Euclidean length of an arrow, in squared image units *)
ArrowLen2(ann) ==
  (ann.end.x - ann.start.x) * (ann.end.x - ann.start.x)
  + (ann.end.y - ann.start.y) * (ann.end.y - ann.start.y)

(* ---- _arrow_dimensions: the head size of an arrow ---- *)
(* The length is a square root, so sizes are compared through their
   squares: the head size is returned squared, in units of
   1/(HEAD_CAP_DEN * Unit) pixel, from the stroke width and the squared
   length in image units. All three candidates are non-negative, so min and
   max of the squares are the squares of min and max. *)
Sq(a) == a * a
HeadByWidthSq(width) == Sq(HEAD_WIDTH_FACTOR * width * HEAD_CAP_DEN * Unit)
HeadCapSq(len2) == Sq(HEAD_CAP_NUM) * len2
HeadFloorSq == Sq(HEAD_MIN * HEAD_CAP_DEN * Unit)

(* variant: the head is not capped by the length *)
ArrowHeadSq_NoCap(width, len2) == Max(HeadByWidthSq(width), HeadFloorSq)

(* variant: the head has no minimum *)
ArrowHeadSq_NoFloor(width, len2) == Min(HeadByWidthSq(width), HeadCapSq(len2))

ArrowHeadSq(width, len2) ==
  Max(Min(HeadByWidthSq(width), HeadCapSq(len2)), HeadFloorSq)

(* ---- _paint_annotation: the drawing operations one annotation issues ---- *)
PaintAnnotation(ann) ==
  CASE ann.kind = "freehand" ->
         IF Len(ann.points) < 2 THEN << >>
         ELSE <<[op |-> "path", ann |-> ann]>>
    [] ann.kind = "arrow" ->
         IF ArrowLen2(ann) < Unit * Unit THEN << >>
         ELSE IF ann.style = "open"
              THEN <<[op |-> "arrow_hollow", ann |-> ann]>>
              ELSE <<[op |-> "arrow_filled", ann |-> ann]>>
    [] ann.kind = "oval" -> <<[op |-> "ellipse", ann |-> ann]>>
    [] ann.kind = "rect" -> <<[op |-> "rect", ann |-> ann]>>
    [] ann.kind = "text" -> <<[op |-> "text", ann |-> ann]>>
    [] OTHER -> << >>

RECURSIVE PaintAll(_)
PaintAll(stack) ==
  IF stack = << >> THEN << >>
  ELSE PaintAnnotation(Head(stack)) \o PaintAll(Tail(stack))

(* the painter transform of paintEvent: painter.translate(image_rect.x,
   image_rect.y) then painter.scale(scale, scale). An image point (held in
   units of 1/Unit pixel) is drawn at origin + scale * point; the result is
   a screen position in units of 1/(Unit * den) pixel. *)
ScreenUnit == Unit * Layout.den

(* variant: the scale is set before the translation, which is then scaled *)
PaintTransform_ScaleFirst(ip) ==
  [x |-> Layout.num * (Layout.x * Unit + ip.x),
   y |-> Layout.num * (Layout.y * Unit + ip.y)]

PaintTransform(ip) ==
  [x |-> Layout.x * ScreenUnit + Layout.num * ip.x,
   y |-> Layout.y * ScreenUnit + Layout.num * ip.y]

(* painter.drawPixmap(0, 0, self._bg_pixmap) *)
Backdrop == [op |-> "backdrop"]

(* variant: the annotation in progress is drawn before the committed ones *)
PaintEvent_InProgressFirst ==
  (IF drawing /\ current_ann # NoAnn THEN PaintAnnotation(current_ann)
   ELSE << >>)
  \o PaintAll(undo_stack)

(* paintEvent: the annotation operations drawn after the backdrop *)
PaintEvent ==
  PaintAll(undo_stack)
  \o (IF drawing /\ current_ann # NoAnn THEN PaintAnnotation(current_ann)
      ELSE << >>)

(* variant: the compositor also draws the undone annotations *)
Composite_DrawsRedo == PaintAll(undo_stack \o redo_stack)

(* _composite: the operations drawn onto the copy of the source image *)
Composite == PaintAll(undo_stack)

(* ---- minimum-size rule of mouseReleaseEvent ---- *)
(* variant: an oval or rect is discarded as soon as one side is short *)
Discard_EitherSide(ann) ==
  CASE ann.kind = "freehand" -> Len(ann.points) < 2
    [] ann.kind = "arrow" ->
         ArrowLen2(ann) < (MIN_DRAG_SIZE * Unit) * (MIN_DRAG_SIZE * Unit)
    [] ann.kind \in {"oval", "rect"} ->
         ann.rect.w < MIN_DRAG_SIZE * Unit \/ ann.rect.h < MIN_DRAG_SIZE * Unit
    [] OTHER -> FALSE

(* variant: nothing is discarded at pointer-up *)
Discard_Never(ann) == FALSE

Discard(ann) ==
  CASE ann.kind = "freehand" -> Len(ann.points) < 2
    [] ann.kind = "arrow" ->
         ArrowLen2(ann) < (MIN_DRAG_SIZE * Unit) * (MIN_DRAG_SIZE * Unit)
    [] ann.kind \in {"oval", "rect"} ->
         ann.rect.w < MIN_DRAG_SIZE * Unit /\ ann.rect.h < MIN_DRAG_SIZE * Unit
    [] OTHER -> FALSE

(* ---- undo / redo on the two stacks ---- *)
(* variant: undo takes the oldest committed annotation *)
UndoStacks_PopsFirst(isDrawing, u, r) ==
  IF isDrawing \/ u = << >> THEN <<u, r>>
  ELSE <<Tail(u), Append(r, Head(u))>>

(* variant: undo without the drawing guard *)
UndoStacks_Unguarded(isDrawing, u, r) ==
  IF u = << >> THEN <<u, r>>
  ELSE <<SubSeq(u, 1, Len(u) - 1), Append(r, u[Len(u)])>>

UndoStacks(isDrawing, u, r) ==
  IF isDrawing \/ u = << >> THEN <<u, r>>
  ELSE <<SubSeq(u, 1, Len(u) - 1), Append(r, u[Len(u)])>>

(* variant: redo takes the bottom of the redo stack *)
RedoStacks_TakesBottom(isDrawing, u, r) ==
  IF isDrawing \/ r = << >> THEN <<u, r>>
  ELSE <<Append(u, Head(r)), Tail(r)>>

(* variant: redo puts the annotation back at the front of committed *)
RedoStacks_Prepends(isDrawing, u, r) ==
  IF isDrawing \/ r = << >> THEN <<u, r>>
  ELSE <<<<r[Len(r)]>> \o u, SubSeq(r, 1, Len(r) - 1)>>

RedoStacks(isDrawing, u, r) ==
  IF isDrawing \/ r = << >> THEN <<u, r>>
  ELSE <<Append(u, r[Len(r)]), SubSeq(r, 1, Len(r) - 1)>>

(* commit: append to the undo stack and clear the redo stack *)
(* variant: a commit keeps the redo stack *)
CommitStacks_KeepsRedo(u, r, ann) == <<Append(u, ann), r>>

(* variant: a commit puts the annotation below the committed ones *)
CommitStacks_Prepends(u, r, ann) == <<<<ann>> \o u, << >>>>

CommitStacks(u, r, ann) == <<Append(u, ann), << >>>>

(* ---- ImmediPaste.__init__: no capture in progress, empty history ---- *)
AppFields(platforms, annotate) ==
  /\ platform_name \in platforms
  /\ annotate_captures \in annotate
  /\ capturing = FALSE
  /\ overlay_ref = NoRef
  /\ editor_ref = NoRef
  /\ capture_history = << >>
  /\ last_capture_path = NoPath
  /\ notifications = [count |-> 0, icon |-> "None", msg |-> "None"]
  /\ live = {}
  /\ started = 0
  /\ saved_paths = << >>

(* ---- before any process has called acquire_single_instance: no lock file
   exists ---- *)
LockFields ==
  /\ now = 0
  /\ lock_path = NoFile
  /\ files = << >>
  /\ procs = [p \in Procs |-> [pc |-> "start", fh |-> NoFile, saved_timestamp |-> NoTimestamp]]

(* DEFAULT_CONFIG (save_folder is default_save_folder(), a path that
   depends on the platform) *)
DEFAULT_CONFIG ==
  [config_version |-> CONFIG_VERSION,
   save_folder |-> "default_save_folder",
   hotkey_region |-> <<"<ctrl>", "<alt>", "<shift>", "s">>,
   hotkey_window |-> <<"<ctrl>", "<alt>", "<shift>", "d">>,
   hotkey_fullscreen |-> <<"<ctrl>", "<alt>", "<shift>", "f">>,
   format |-> "jpg",
   filename_prefix |-> "screenshot",
   filename_suffix |-> "%Y-%m-%d_%H-%M-%S",
   save_to_disk |-> TRUE,
   launch_on_startup |-> FALSE,
   annotate_captures |-> FALSE,
   annotate_default_tool |-> "freehand",
   annotate_shift_tool |-> "arrow",
   annotate_ctrl_tool |-> "oval",
   annotate_alt_tool |-> "text"]

(* ---- the dictionary load_config reads, before migrate_config ---- *)
ConfigFields(configs) ==
  /\ config \in configs
  /\ migrate_returns = << >>

(* ---- SettingsDialog.__init__: the widgets show the configuration, the
   debounce timer is stopped ---- *)
DialogFields ==
  /\ dialog_open = TRUE
  /\ widgets = [fmt_combo |-> DEFAULT_CONFIG.format,
                save_disk_check |-> DEFAULT_CONFIG.save_to_disk]
  /\ _save_timer = FALSE
  /\ on_change_calls = << >>
  /\ bursts = 0
  /\ changes = 0

(* ---- HotkeyEdit.__init__ ---- *)
HotkeyFields(values) ==
  /\ _value \in values
  /\ _recording = FALSE
  /\ changed_emitted = 0
  /\ last_event = [kind |-> "none"]

SettingsFields ==
  /\ ConfigFields({DEFAULT_CONFIG})
  /\ DialogFields
  /\ HotkeyFields({DEFAULT_CONFIG.hotkey_region})

(* ---- AnnotationEditor.__init__ ---- *)
EditorFields(geometry, image, disk, mappings) ==
  /\ screen = geometry
  /\ img = image
  /\ layout = ComputeLayout(geometry.w, geometry.h, image.w, image.h)
  /\ save_to_disk \in disk
  /\ _modifier_tools \in mappings
  /\ width_spin = DEFAULT_STROKE_WIDTH
  /\ painted = << >>
  /\ saved = FALSE
  /\ closed = FALSE
  /\ drawing = FALSE
  /\ current_ann = NoAnn
  /\ drag_start = NoPoint
  /\ text_input = NoInput
  /\ dragging_text_idx = NoIdx
  /\ text_drag_offset = [x |-> 0, y |-> 0]
  /\ undo_stack = << >>
  /\ redo_stack = << >>
  /\ cur_tool = "freehand"
  /\ undo_enabled = FALSE
  /\ redo_enabled = FALSE
  /\ composited = NoImage
  /\ done_calls = << >>

(* the editor of an application that is running no capture, in a process
   that is the only caller of acquire_single_instance so far *)
InitEditor(geometry, image, disk, mappings) ==
  /\ EditorFields(geometry, image, disk, mappings)
  /\ AppFields({"Windows"}, {FALSE})
  /\ LockFields
  /\ SettingsFields

(* ---- helpers shared by the handlers ---- *)
Cancelled == [path |-> "None", error |-> "cancelled"]

(* variant: only the Undo button is refreshed *)
UpdateUndoRedoButtons_UndoOnly ==
  /\ undo_enabled' = (Len(undo_stack') > 0)
  /\ redo_enabled' = redo_enabled

(* _update_undo_redo_buttons, applied to the new stacks *)
UpdateUndoRedoButtons ==
  /\ undo_enabled' = (Len(undo_stack') > 0)
  /\ redo_enabled' = (Len(redo_stack') > 0)

(* self.close() on a WA_DeleteOnClose widget: the editor, its toolbar and
   its text input are deleted and receive no further event.  The fields of
   the deleted objects are parked at their constructor values. *)
Close ==
  /\ closed' = TRUE
  /\ drawing' = FALSE
  /\ current_ann' = NoAnn
  /\ drag_start' = NoPoint
  /\ text_input' = NoInput
  /\ dragging_text_idx' = NoIdx
  /\ text_drag_offset' = [x |-> 0, y |-> 0]
  /\ undo_stack' = << >>
  /\ redo_stack' = << >>
  /\ undo_enabled' = FALSE
  /\ redo_enabled' = FALSE
  /\ cur_tool' = "freehand"

(* variant: closeEvent reports a cancel whether or not _saved is set *)
CloseEventCalls_Unguarded(was_saved, calls) == Append(calls, Cancelled)

(* closeEvent, run by every close(): the on_done calls made so far, after
   the handler has run with the given value of _saved *)
CloseEventCalls(was_saved, calls) ==
  IF ~was_saved THEN Append(calls, Cancelled) ELSE calls

(* variant: cancelling composites the image before closing *)
CancelAndClose_Composites ==
  /\ saved' = TRUE
  /\ Close
  /\ done_calls' = Append(CloseEventCalls(TRUE, done_calls), Cancelled)
  /\ composited' = Composite

(* _cancel_and_close *)
CancelAndClose ==
  /\ saved' = TRUE
  /\ Close
  /\ done_calls' = Append(CloseEventCalls(TRUE, done_calls), Cancelled)
  /\ UNCHANGED composited

SaveError(clipboard_ok, filepath) ==
  IF ~clipboard_ok /\ filepath = "None"
  THEN IF save_to_disk
       THEN "Capture failed: could not copy to clipboard or save to disk"
       ELSE "Capture failed: could not copy to clipboard"
  ELSE IF ~clipboard_ok THEN "Copied to disk but clipboard copy failed"
  ELSE "None"

(* _save_and_close; clipboard_ok and file_ok are the collaborators' results *)
SaveAndClose(clipboard_ok, file_ok) ==
  LET filepath == IF save_to_disk /\ file_ok THEN "path" ELSE "None"
  IN /\ composited' = Composite
     /\ saved' = TRUE
     /\ Close
     /\ done_calls' = Append(CloseEventCalls(TRUE, done_calls),
          [path |-> filepath, error |-> SaveError(clipboard_ok, filepath)])

(* _undo *)
DoUndo ==
  LET r == UndoStacks(drawing, undo_stack, redo_stack)
  IN /\ undo_stack' = r[1]
     /\ redo_stack' = r[2]
     /\ IF drawing \/ undo_stack = << >>
        THEN UNCHANGED <<undo_enabled, redo_enabled>>
        ELSE UpdateUndoRedoButtons

(* _redo *)
DoRedo ==
  LET r == RedoStacks(drawing, undo_stack, redo_stack)
  IN /\ undo_stack' = r[1]
     /\ redo_stack' = r[2]
     /\ IF drawing \/ redo_stack = << >>
        THEN UNCHANGED <<undo_enabled, redo_enabled>>
        ELSE UpdateUndoRedoButtons

(* _remove_text_input (also _cancel_text_input) *)
RemoveTextInput == text_input' = NoInput

(* _confirm_text_input *)
ConfirmTextInput(text, image_pos) ==
  /\ Len(undo_stack) < CommitLimit
  /\ undo_stack' =
       CommitStacks(undo_stack, redo_stack, TextAnnotation(image_pos, text))[1]
  /\ redo_stack' =
       CommitStacks(undo_stack, redo_stack, TextAnnotation(image_pos, text))[2]
  /\ UpdateUndoRedoButtons
  /\ RemoveTextInput

(* AnnotationTextInput._on_confirm, with the slots connected to its signals *)
OnConfirm(typed) ==
  LET text == Strip(typed)
  IN IF text # << >>
     THEN ConfirmTextInput(text, text_input.image_pos)
     ELSE /\ RemoveTextInput
          /\ UNCHANGED <<undo_stack, redo_stack, undo_enabled, redo_enabled>>

(* _place_text_input *)
(* variant: an active text input is not removed, the new one is opened
   beside it *)
PlaceTextInput_KeepsEarlier(image_pos) ==
  text_input' = IF text_input # NoInput
                THEN [image_pos |-> image_pos, earlier |-> text_input]
                ELSE [image_pos |-> image_pos]

PlaceTextInput(image_pos) ==
  text_input' = [image_pos |-> image_pos]

(* ---- mousePressEvent ---- *)
MousePress(button, sp, mods) ==
  /\ ~closed
  /\ UNCHANGED configVars
  /\ IF button = "right"
     THEN CancelAndClose
     ELSE
       /\ UNCHANGED <<closeVars, cur_tool>>
       /\ IF button # "left" \/ RectContains(ToolbarGeom, sp)
             \/ ToImageCoords(sp) = NoPoint
          THEN UNCHANGED sessionVars
          ELSE
            LET pos == ToImageCoords(sp)
                tool == ToolFromModifiers(mods, _modifier_tools, cur_tool)
                hit_idx == HitTestText(undo_stack, pos)
            IN IF tool = "text"
               THEN IF hit_idx # NoIdx
                    THEN /\ dragging_text_idx' = hit_idx
                         /\ text_drag_offset' =
                              [x |-> undo_stack[hit_idx].position.x - pos.x,
                               y |-> undo_stack[hit_idx].position.y - pos.y]
                         /\ drawing' = TRUE
                         /\ UNCHANGED <<current_ann, drag_start, text_input,
                                        undo_stack, redo_stack,
                                        undo_enabled, redo_enabled>>
                    ELSE /\ PlaceTextInput(pos)
                         /\ UNCHANGED <<drawing, current_ann, drag_start,
                                        dragging_text_idx, text_drag_offset,
                                        undo_stack, redo_stack,
                                        undo_enabled, redo_enabled>>
               ELSE /\ drag_start' = pos
                    /\ current_ann' = NewAnnotation(tool, pos)
                    /\ drawing' = TRUE
                    /\ UNCHANGED <<text_input, dragging_text_idx,
                                   text_drag_offset, undo_stack, redo_stack,
                                   undo_enabled, redo_enabled>>

(* lines 971-975: the dragged text follows the pointer at the grab offset *)
(* variant: the dragged text is also raised to the top of committed *)
MoveText_Raises(stack, idx, pos, offset) ==
  LET moved == [stack[idx] EXCEPT !.position = [x |-> pos.x + offset.x,
                                                y |-> pos.y + offset.y]]
  IN Append(SelectSeq([stack EXCEPT ![idx] = NoAnn], LAMBDA a : a # NoAnn),
            moved)

MoveText(stack, idx, pos, offset) ==
  [stack EXCEPT ![idx].position = [x |-> pos.x + offset.x,
                                   y |-> pos.y + offset.y]]

(* lines 984-989: the annotation in progress follows the pointer *)
UpdateAnnotation(ann, start, pos) ==
  CASE ann.kind = "freehand" -> [ann EXCEPT !.points = Append(@, pos)]
    [] ann.kind = "arrow" -> [ann EXCEPT !.end = pos]
    [] ann.kind \in {"oval", "rect"} ->
         [ann EXCEPT !.rect = NormalizedRect(start, pos)]
    [] OTHER -> ann

(* ---- mouseMoveEvent ---- *)
MouseMove(sp) ==
  /\ ~closed
  /\ UNCHANGED <<configVars, cur_tool, closeVars>>
  /\ LET pos == ClampToImage(sp)
     IN IF dragging_text_idx # NoIdx
        THEN /\ undo_stack' =
                  MoveText(undo_stack, dragging_text_idx, pos, text_drag_offset)
             /\ UNCHANGED <<drawing, current_ann, drag_start, text_input,
                            dragging_text_idx, text_drag_offset, redo_stack,
                            undo_enabled, redo_enabled>>
        ELSE IF ~drawing \/ current_ann = NoAnn
        THEN UNCHANGED sessionVars
        ELSE
          /\ current_ann.kind = "freehand" => Len(current_ann.points) < MaxPoints
          /\ current_ann' = UpdateAnnotation(current_ann, drag_start, pos)
          /\ UNCHANGED <<drawing, drag_start, text_input, dragging_text_idx,
                         text_drag_offset, undo_stack, redo_stack,
                         undo_enabled, redo_enabled>>

(* ---- mouseReleaseEvent ---- *)
MouseRelease(button) ==
  /\ ~closed
  /\ UNCHANGED <<configVars, cur_tool, closeVars>>
  /\ IF button # "left"
     THEN UNCHANGED sessionVars
     ELSE IF dragging_text_idx # NoIdx
     THEN /\ dragging_text_idx' = NoIdx
          /\ drawing' = FALSE
          /\ UNCHANGED <<current_ann, drag_start, text_input, text_drag_offset,
                         undo_stack, redo_stack, undo_enabled, redo_enabled>>
     ELSE IF ~drawing
     THEN UNCHANGED sessionVars
     ELSE
       /\ drawing' = FALSE
       /\ IF current_ann = NoAnn
          THEN UNCHANGED <<current_ann, undo_stack, redo_stack,
                           undo_enabled, redo_enabled>>
          ELSE /\ IF ~Discard(current_ann)
                  THEN /\ Len(undo_stack) < CommitLimit
                       /\ undo_stack' =
                            CommitStacks(undo_stack, redo_stack, current_ann)[1]
                       /\ redo_stack' =
                            CommitStacks(undo_stack, redo_stack, current_ann)[2]
                       /\ UpdateUndoRedoButtons
                  ELSE UNCHANGED <<undo_stack, redo_stack,
                                   undo_enabled, redo_enabled>>
               /\ current_ann' = NoAnn
       /\ UNCHANGED <<drag_start, text_input, dragging_text_idx,
                      text_drag_offset>>

(* ---- AnnotationTextInput.keyPressEvent (the text input has focus) ---- *)
TextInputKey(key, typed) ==
  /\ ~closed
  /\ text_input # NoInput
  /\ UNCHANGED <<configVars, cur_tool, closeVars, drawing, current_ann,
                 drag_start, dragging_text_idx, text_drag_offset>>
  /\ IF key = "escape"
     THEN /\ RemoveTextInput
          /\ UNCHANGED <<undo_stack, redo_stack, undo_enabled, redo_enabled>>
     ELSE OnConfirm(typed)

(* ---- AnnotationEditor.keyPressEvent (the editor has focus) ---- *)
KeyPress(key, mods, typed, clipboard_ok, file_ok) ==
  /\ ~closed
  /\ UNCHANGED configVars
  /\ IF text_input # NoInput
     THEN /\ UNCHANGED <<closeVars, cur_tool, drawing, current_ann, drag_start,
                         dragging_text_idx, text_drag_offset>>
          /\ IF key = "escape"
             THEN /\ RemoveTextInput
                  /\ UNCHANGED <<undo_stack, redo_stack,
                                 undo_enabled, redo_enabled>>
             ELSE IF key = "enter"
             THEN OnConfirm(typed)
             ELSE UNCHANGED <<text_input, undo_stack, redo_stack,
                              undo_enabled, redo_enabled>>
     ELSE IF key = "escape"
     THEN CancelAndClose
     ELSE IF key = "enter"
     THEN SaveAndClose(clipboard_ok, file_ok)
     ELSE
       /\ UNCHANGED <<closeVars, cur_tool, drawing, current_ann, drag_start,
                      text_input, dragging_text_idx, text_drag_offset>>
       /\ IF key = "z" /\ mods = {"ctrl"} /\ ~drawing
          THEN DoUndo
          ELSE IF key = "z" /\ mods = {"ctrl", "shift"} /\ ~drawing
          THEN DoRedo
          ELSE UNCHANGED <<undo_stack, redo_stack, undo_enabled, redo_enabled>>

(* ---- toolbar signals ---- *)
UndoRequested ==
  /\ ~closed
  /\ undo_enabled
  /\ DoUndo
  /\ UNCHANGED <<configVars, cur_tool, closeVars, drawing, current_ann,
                 drag_start, text_input, dragging_text_idx, text_drag_offset>>

RedoRequested ==
  /\ ~closed
  /\ redo_enabled
  /\ DoRedo
  /\ UNCHANGED <<configVars, cur_tool, closeVars, drawing, current_ann,
                 drag_start, text_input, dragging_text_idx, text_drag_offset>>

SaveRequested(clipboard_ok, file_ok) ==
  /\ ~closed
  /\ SaveAndClose(clipboard_ok, file_ok)
  /\ UNCHANGED configVars

CancelRequested ==
  /\ ~closed
  /\ CancelAndClose
  /\ UNCHANGED configVars

(* a tool button is clicked: the button group's checked button changes *)
ToolClicked(t) ==
  /\ ~closed
  /\ cur_tool # t
  /\ cur_tool' = t
  /\ UNCHANGED <<configVars, closeVars, sessionVars>>

(* ---- closeEvent delivered by the window manager ---- *)
CloseEvent ==
  /\ ~closed
  /\ Close
  /\ saved' = TRUE
  /\ done_calls' = CloseEventCalls(saved, done_calls)
  /\ UNCHANGED <<configVars, composited>>

(* the user sets the stroke width spin box of the toolbar *)
WidthChanged(w) ==
  /\ ~closed
  /\ width_spin' = w
  /\ UNCHANGED <<fixedVars, painted, cur_tool, closeVars, sessionVars>>

(* variant: a paint pass commits the annotation in progress *)
Paint_Commits ==
  /\ ~closed
  /\ painted' = <<Backdrop>> \o PaintEvent
  /\ undo_stack' = IF drawing /\ current_ann # NoAnn
                   THEN Append(undo_stack, current_ann) ELSE undo_stack
  /\ UNCHANGED <<fixedVars, width_spin, cur_tool, closeVars, drawing, current_ann,
                 drag_start, text_input, dragging_text_idx, text_drag_offset,
                 redo_stack, undo_enabled, redo_enabled>>

(* paintEvent, delivered by the window system after update() or an expose:
   the backdrop pixmap is drawn, then PaintEvent's operations *)
Paint ==
  /\ ~closed
  /\ painted' = <<Backdrop>> \o PaintEvent
  /\ UNCHANGED <<fixedVars, width_spin, cur_tool, closeVars, sessionVars>>

(* a call of _composite() on an open editor, as the tests make it *)
CompositeCalled ==
  /\ ~closed
  /\ composited' = Composite
  /\ UNCHANGED <<configVars, cur_tool, saved, closed, done_calls, sessionVars>>

(* key presses: key, held modifiers, content of the text input (read when
   Enter confirms it), results of the clipboard and disk collaborators (read
   when Enter saves) *)
KeyInputs ==
  {<<"escape", {}, << >>, TRUE, TRUE>>, <<"z", {"ctrl"}, << >>, TRUE, TRUE>>,
   <<"z", {"ctrl", "shift"}, << >>, TRUE, TRUE>>,
   <<"z", {}, << >>, TRUE, TRUE>>}
  \cup {<<"enter", {}, t, TRUE, TRUE>> : t \in Texts}
  \cup {<<"enter", {}, << >>, c, f>> : c \in BOOLEAN, f \in BOOLEAN}
TextKeyInputs ==
  {<<"escape", << >>>>} \cup {<<"enter", t>> : t \in Texts}
ToolButtons == {"freehand", "rect"}

NextWith(presses, moves) ==
  \/ \E i \in presses : MousePress(i[1], i[2], i[3])
  \/ \E sp \in moves : MouseMove(sp)
  \/ \E b \in {"left", "middle"} : MouseRelease(b)
  \/ \E i \in TextKeyInputs : TextInputKey(i[1], i[2])
  \/ \E i \in KeyInputs : KeyPress(i[1], i[2], i[3], i[4], i[5])
  \/ UndoRequested
  \/ RedoRequested
  \/ \E c \in BOOLEAN, f \in BOOLEAN : SaveRequested(c, f)
  \/ CancelRequested
  \/ \E t \in ToolButtons : ToolClicked(t)
  \/ CloseEvent

(* sessions on an image that fits the screen, saving to disk (the default) *)
Init == InitEditor(Screen, SmallImage, {TRUE}, {_DEFAULT_MODIFIER_TOOLS})
Next == NextWith(PressInputs, MovePoints)
Spec == Init /\ [][Next]_vars

(* sessions on an image larger than the screen, clipboard only *)
InitScaled == InitEditor(Screen, LargeImage, {FALSE}, {_DEFAULT_MODIFIER_TOOLS})
NextScaled == NextWith(PressInputsScaled, MovePointsScaled)
SpecScaled == InitScaled /\ [][NextScaled]_vars

(* sessions constructed with a modifier_tools argument *)
InitTools == InitEditor(Screen, LargeImage, {FALSE}, ModifierToolConfigs)
NextTools == NextWith(PressInputsTools, MovePoints)
SpecTools == InitTools /\ [][NextTools]_vars

(* sessions over several screen and image sizes, clipboard only *)
InitLayout ==
  \E g \in Geometries :
    InitEditor(g[1], g[2], {FALSE}, {_DEFAULT_MODIFIER_TOOLS})
NextLayout == NextWith(PressInputsLayout, MovePointsLayout)
SpecLayout == InitLayout /\ [][NextLayout]_vars

(* sessions that draw arrows with several stroke widths *)
InitArrow == InitEditor(Screen, LargeImage, {FALSE}, {_DEFAULT_MODIFIER_TOOLS})
NextArrow ==
  \/ \E i \in PressInputsArrow : MousePress(i[1], i[2], i[3])
  \/ \E sp \in MovePointsArrow : MouseMove(sp)
  \/ MouseRelease("left")
  \/ UndoRequested
  \/ RedoRequested
  \/ SaveRequested(TRUE, TRUE)
  \/ \E w \in ArrowWidths : WidthChanged(w)
SpecArrow == InitArrow /\ [][NextArrow]_vars

(* the pointer gestures, undo, redo and save of a drawing session *)
NextDrawing(presses) ==
  \/ \E i \in presses : MousePress(i[1], i[2], i[3])
  \/ \E sp \in MovePoints : MouseMove(sp)
  \/ MouseRelease("left")
  \/ UndoRequested
  \/ RedoRequested
  \/ SaveRequested(TRUE, TRUE)

(* sessions that place, confirm, cancel and drag texts *)
InitText == InitEditor(Screen, SmallImage, {FALSE}, {_DEFAULT_MODIFIER_TOOLS})
NextText ==
  \/ \E i \in PressInputsText : MousePress(i[1], i[2], i[3])
  \/ \E sp \in MovePoints : MouseMove(sp)
  \/ MouseRelease("left")
  \/ \E i \in TextKeyInputs : TextInputKey(i[1], i[2])
  \/ UndoRequested
  \/ RedoRequested
SpecText == InitText /\ [][NextText]_vars

(* sessions in which the paint passes are observed *)
InitPaint == InitEditor(Screen, SmallImage, {FALSE}, {_DEFAULT_MODIFIER_TOOLS})
NextPaint == NextDrawing(PressInputsPaint) \/ Paint
SpecPaint == InitPaint /\ [][NextPaint]_vars

(* sessions in which _composite() is called between the events *)
InitCompose == InitEditor(Screen, SmallImage, {FALSE}, {_DEFAULT_MODIFIER_TOOLS})
NextCompose == NextDrawing(PressInputsCompose) \/ Paint \/ CompositeCalled
SpecCompose == InitCompose /\ [][NextCompose]_vars

(***************************************************************************)
(* The application: capture triggers and the completion sink               *)
(***************************************************************************)

(* everything of the editor, which no application handler touches *)
editorVars == <<screen, img, layout, save_to_disk, _modifier_tools,
                width_spin, painted, cur_tool, closeVars, sessionVars>>

(* tray_icon.showMessage(title, msg, icon, timeout) *)
ShowMessage(icon, msg) ==
  [count |-> notifications.count + 1, icon |-> icon, msg |-> msg]

(* capture_history[-MAX_HISTORY:] after the append *)
(* variant: the oldest paths are kept *)
AppendHistory_KeepsOldest(history, filepath) ==
  LET h == Append(history, filepath)
  IN IF Len(h) > MAX_HISTORY THEN SubSeq(h, 1, MAX_HISTORY) ELSE h

AppendHistory(history, filepath) ==
  LET h == Append(history, filepath)
  IN IF Len(h) > MAX_HISTORY
     THEN SubSeq(h, Len(h) - MAX_HISTORY + 1, Len(h))
     ELSE h

(* variant: a cancelled capture is reported like a success *)
OnCaptureDone_NotifiesCancel(filepath, error) ==
  /\ capturing' = FALSE
  /\ overlay_ref' = NoRef
  /\ editor_ref' = NoRef
  /\ IF error # "None" /\ error # "cancelled"
     THEN /\ notifications' = ShowMessage("Critical", error)
          /\ UNCHANGED <<capture_history, last_capture_path>>
     ELSE /\ capture_history' =
               IF filepath # NoPath THEN AppendHistory(capture_history, filepath)
               ELSE capture_history
          /\ last_capture_path' =
               IF filepath # NoPath THEN filepath ELSE last_capture_path
          /\ notifications' =
               ShowMessage("Information",
                           IF filepath # NoPath THEN "basename"
                           ELSE "Copied to clipboard")

(* _on_capture_done(filepath, error) *)
OnCaptureDone(filepath, error) ==
  /\ capturing' = FALSE
  /\ overlay_ref' = NoRef
  /\ editor_ref' = NoRef
  /\ IF error = "cancelled"
     THEN UNCHANGED <<capture_history, last_capture_path, notifications>>
     ELSE IF error # "None"
     THEN /\ notifications' = ShowMessage("Critical", error)
          /\ UNCHANGED <<capture_history, last_capture_path>>
     ELSE /\ capture_history' =
               IF filepath # NoPath THEN AppendHistory(capture_history, filepath)
               ELSE capture_history
          /\ last_capture_path' =
               IF filepath # NoPath THEN filepath ELSE last_capture_path
          /\ notifications' =
               ShowMessage("Information",
                           IF filepath # NoPath THEN "basename"
                           ELSE "Copied to clipboard")

(* the error _finish_capture, capture_fullscreen_direct and _save_and_close
   report, from the results of the clipboard and the disk *)
CaptureError(clipboard_ok, filepath) ==
  IF ~clipboard_ok /\ filepath = NoPath
  THEN IF save_to_disk
       THEN "Capture failed: could not copy to clipboard or save to disk"
       ELSE "Capture failed: could not copy to clipboard"
  ELSE IF ~clipboard_ok THEN "Copied to disk but clipboard copy failed"
  ELSE "None"

(* the arguments a capture session passes to on_done: a cancel, a failed
   screenshot, or the result of copying and saving; the file a session
   saves is named after the time, here after the session's number *)
CancelResult == [path |-> NoPath, error |-> "cancelled"]
ScreenshotFailed == [path |-> NoPath, error |-> "Screenshot failed"]
FinishResult(id, clipboard_ok, file_ok) ==
  LET filepath == IF save_to_disk /\ file_ok THEN id ELSE NoPath
  IN [path |-> filepath, error |-> CaptureError(clipboard_ok, filepath)]
FinishResults(id) ==
  {FinishResult(id, c, f) : c \in BOOLEAN, f \in BOOLEAN}

(* the paths saved by captures that completed without error, in completion
   order (kept for the history properties; the application has no such
   field) *)
RecordSaved(r) ==
  saved_paths' = IF r.error = "None" /\ r.path # NoPath
                 THEN Append(saved_paths, r.path) ELSE saved_paths

(* a completion delivered synchronously by the trigger that started it *)
CompletedAtOnce(r) ==
  /\ started' = started + 1
  /\ OnCaptureDone(r.path, r.error)
  /\ RecordSaved(r)
  /\ UNCHANGED live

(* the overlay is created and shown: CaptureOverlay(...), start() *)
OverlayStarted ==
  /\ started' = started + 1
  /\ capturing' = TRUE
  /\ overlay_ref' = started + 1
  /\ live' = live \cup {[id |-> started + 1, stage |-> "overlay"]}
  /\ UNCHANGED <<editor_ref, capture_history, last_capture_path,
                 notifications, saved_paths>>

(* variant: the trigger does not look at capturing *)
TriggerCapture_Unguarded(screenshot_ok) ==
  /\ started < MaxCaptures
  /\ IF screenshot_ok THEN OverlayStarted
     ELSE CompletedAtOnce(ScreenshotFailed)
  /\ UNCHANGED <<editorVars, appConfig, lockVars>>

(* trigger_capture, from the region hotkey or the tray menu *)
TriggerCapture(screenshot_ok) ==
  IF capturing THEN UNCHANGED vars
  ELSE /\ started < MaxCaptures
       /\ IF screenshot_ok THEN OverlayStarted
          ELSE CompletedAtOnce(ScreenshotFailed)
       /\ UNCHANGED <<editorVars, appConfig, lockVars>>

(* trigger_window_capture *)
TriggerWindowCapture(screenshot_ok) ==
  IF capturing THEN UNCHANGED vars
  ELSE IF platform_name # "Windows"
  THEN /\ notifications.count < MaxCaptures
       /\ notifications' =
            ShowMessage("Warning", "Window capture is only available on Windows")
       /\ UNCHANGED <<editorVars, appConfig, lockVars, capturing, overlay_ref,
                      editor_ref, capture_history, last_capture_path, live,
                      started, saved_paths>>
  ELSE /\ started < MaxCaptures
       /\ IF screenshot_ok THEN OverlayStarted
          ELSE CompletedAtOnce(ScreenshotFailed)
       /\ UNCHANGED <<editorVars, appConfig, lockVars>>

(* trigger_fullscreen: capture_fullscreen_direct() completes before the
   trigger returns *)
TriggerFullscreen(screenshot_ok, clipboard_ok, file_ok) ==
  IF capturing THEN UNCHANGED vars
  ELSE /\ started < MaxCaptures
       /\ IF screenshot_ok
          THEN CompletedAtOnce(FinishResult(started + 1, clipboard_ok, file_ok))
          ELSE CompletedAtOnce(ScreenshotFailed)
       /\ UNCHANGED <<editorVars, appConfig, lockVars>>

(* the overlay of a session ends it: _cancel or _finish_capture calls
   on_done(r.path, error = r.error) *)
OverlayFinished(r) ==
  \E s \in live :
    /\ s.stage = "overlay"
    /\ r \in {CancelResult} \cup FinishResults(s.id)
    /\ live' = live \ {s}
    /\ OnCaptureDone(r.path, r.error)
    /\ RecordSaved(r)
    /\ UNCHANGED <<started, editorVars, appConfig, lockVars>>

(* the overlay hands its image to _open_annotation_editor *)
OpenAnnotationEditor ==
  \E s \in live :
    /\ s.stage = "overlay"
    /\ annotate_captures
    /\ editor_ref' = s.id
    /\ live' = (live \ {s}) \cup {[id |-> s.id, stage |-> "editor"]}
    /\ UNCHANGED <<capturing, overlay_ref, capture_history, last_capture_path,
                   notifications, started, saved_paths, editorVars, appConfig,
                   lockVars>>

(* the editor of a session ends it: _cancel_and_close, closeEvent or
   _save_and_close calls on_done(r.path, error = r.error) *)
EditorFinished(r) ==
  \E s \in live :
    /\ s.stage = "editor"
    /\ r \in {CancelResult} \cup FinishResults(s.id)
    /\ live' = live \ {s}
    /\ OnCaptureDone(r.path, r.error)
    /\ RecordSaved(r)
    /\ UNCHANGED <<started, editorVars, appConfig, lockVars>>

(* every tuple of arguments a session of this model passes to on_done *)
AllResults ==
  {CancelResult, ScreenshotFailed}
  \cup UNION {FinishResults(id) : id \in 1..(MaxCaptures + 1)}

(* application sessions on either platform, with and without the annotation
   editor, saving to disk *)
InitApp ==
  /\ EditorFields(Screen, SmallImage, {TRUE}, {_DEFAULT_MODIFIER_TOOLS})
  /\ AppFields({"Windows", "Linux"}, BOOLEAN)
  /\ LockFields
  /\ SettingsFields
NextApp ==
  \/ \E ok \in BOOLEAN : TriggerCapture(ok)
  \/ \E ok \in BOOLEAN : TriggerWindowCapture(ok)
  \/ \E ok \in BOOLEAN, c \in BOOLEAN, f \in BOOLEAN : TriggerFullscreen(ok, c, f)
  \/ \E r \in AllResults : OverlayFinished(r)
  \/ OpenAnnotationEditor
  \/ \E r \in AllResults : EditorFinished(r)
SpecApp == InitApp /\ [][NextApp]_vars

(* the window manager closes the overlay (Alt+F4, a task switcher, the end
   of the session): CaptureOverlay defines no closeEvent, so QWidget's
   default accepts the close, WA_DeleteOnClose deletes the window, and
   on_done is not called *)
OverlayClosedExternally ==
  \E s \in live :
    /\ s.stage = "overlay"
    /\ live' = live \ {s}
    /\ UNCHANGED <<capturing, overlay_ref, editor_ref, capture_history,
                   last_capture_path, notifications, started, saved_paths,
                   editorVars, appConfig, lockVars>>

(* application sessions whose windows the window manager may also close;
   the editor's closeEvent is one of the ways of EditorFinished *)
InitAppClose == InitApp
NextAppClose ==
  \/ \E ok \in BOOLEAN : TriggerCapture(ok)
  \/ \E ok \in BOOLEAN : TriggerWindowCapture(ok)
  \/ \E ok \in BOOLEAN, c \in BOOLEAN, f \in BOOLEAN : TriggerFullscreen(ok, c, f)
  \/ \E r \in AllResults : OverlayFinished(r)
  \/ OpenAnnotationEditor
  \/ \E r \in AllResults : EditorFinished(r)
  \/ OverlayClosedExternally
SpecAppClose == InitAppClose /\ [][NextAppClose]_vars

(***************************************************************************)
(* acquire_single_instance: the lock file, on a POSIX system               *)
(* (_try_lock is fcntl.flock(fh, LOCK_EX | LOCK_NB): the lock belongs to   *)
(* the open file, not to its name)                                         *)
(***************************************************************************)

(* a file: the timestamp it holds (NoTimestamp when empty) and the process
   holding the flock on it (NoRef when unlocked) *)
NewFile == [timestamp |-> NoTimestamp, holder |-> NoRef]

SetProc(p, pc, fh, ts) ==
  procs' = [procs EXCEPT ![p] = [pc |-> pc, fh |-> fh, saved_timestamp |-> ts]]

(* lines 879-895: open the lock file without truncation and read the
   timestamp, or create it *)
OpenLockFile(p) ==
  /\ procs[p].pc = "start"
  /\ IF lock_path # NoFile
     THEN /\ SetProc(p, "opened", lock_path, files[lock_path].timestamp)
          /\ UNCHANGED <<lock_path, files>>
     ELSE /\ files' = Append(files, NewFile)
          /\ lock_path' = Len(files) + 1
          /\ SetProc(p, "opened", Len(files) + 1, NoTimestamp)
  /\ UNCHANGED <<now, editorVars, appConfig, appVars>>

(* lines 902-904: the lock is held and its timestamp is older than the
   timeout *)
IsStale(saved_timestamp) ==
  /\ saved_timestamp # NoTimestamp
  /\ now - saved_timestamp > LOCK_TIMEOUT_SECONDS

(* lines 897-926: _try_lock on the file opened first *)
TryLock(p) ==
  /\ procs[p].pc = "opened"
  /\ IF files[procs[p].fh].holder = NoRef
     THEN /\ files' = [files EXCEPT ![procs[p].fh].holder = p]
          /\ SetProc(p, "locked", procs[p].fh, procs[p].saved_timestamp)
     ELSE /\ UNCHANGED files
          /\ IF IsStale(procs[p].saved_timestamp)
             THEN SetProc(p, "breaking", NoFile, procs[p].saved_timestamp)
             ELSE SetProc(p, "exited", NoFile, procs[p].saved_timestamp)
  /\ UNCHANGED <<now, lock_path, editorVars, appConfig, appVars>>

(* lines 905-910: lock_file.close(); os.remove(lock_path) *)
RemoveStale(p) ==
  /\ procs[p].pc = "breaking"
  /\ lock_path' = NoFile
  /\ SetProc(p, "removed", NoFile, procs[p].saved_timestamp)
  /\ UNCHANGED <<now, files, editorVars, appConfig, appVars>>

(* line 911: lock_file = open(lock_path, "w"), which creates the file or
   truncates the one another process has created meanwhile *)
Reopen(p) ==
  /\ procs[p].pc = "removed"
  /\ IF lock_path # NoFile
     THEN /\ files' = [files EXCEPT ![lock_path].timestamp = NoTimestamp]
          /\ SetProc(p, "reopened", lock_path, procs[p].saved_timestamp)
          /\ UNCHANGED lock_path
     ELSE /\ files' = Append(files, NewFile)
          /\ lock_path' = Len(files) + 1
          /\ SetProc(p, "reopened", Len(files) + 1, procs[p].saved_timestamp)
  /\ UNCHANGED <<now, editorVars, appConfig, appVars>>

(* lines 912-917: _try_lock on the file opened after the removal *)
TryLockAgain(p) ==
  /\ procs[p].pc = "reopened"
  /\ IF files[procs[p].fh].holder = NoRef
     THEN /\ files' = [files EXCEPT ![procs[p].fh].holder = p]
          /\ SetProc(p, "locked", procs[p].fh, procs[p].saved_timestamp)
     ELSE /\ UNCHANGED files
          /\ SetProc(p, "exited", NoFile, procs[p].saved_timestamp)
  /\ UNCHANGED <<now, lock_path, editorVars, appConfig, appVars>>

(* lines 928-929: _write_timestamp(lock_file); return lock_file *)
WriteTimestamp(p) ==
  /\ procs[p].pc = "locked"
  /\ files' = [files EXCEPT ![procs[p].fh].timestamp = now]
  /\ SetProc(p, "running", procs[p].fh, procs[p].saved_timestamp)
  /\ UNCHANGED <<now, lock_path, editorVars, appConfig, appVars>>

(* the application quits: the process ends and its lock is released *)
Quit(p) ==
  /\ procs[p].pc = "running"
  /\ files' = [files EXCEPT ![procs[p].fh].holder = NoRef]
  /\ SetProc(p, "exited", NoFile, procs[p].saved_timestamp)
  /\ UNCHANGED <<now, lock_path, editorVars, appConfig, appVars>>

(* time.time() advances *)
Tick ==
  /\ now < MaxTicks * TICK_SECONDS
  /\ now' = now + TICK_SECONDS
  /\ UNCHANGED <<lock_path, files, procs, editorVars, appConfig, appVars>>

(* processes started at any time, in any interleaving *)
InitLock == InitEditor(Screen, SmallImage, {TRUE}, {_DEFAULT_MODIFIER_TOOLS})
NextLock ==
  \/ \E p \in Procs :
       \/ OpenLockFile(p)
       \/ TryLock(p)
       \/ RemoveStale(p)
       \/ Reopen(p)
       \/ TryLockAgain(p)
       \/ WriteTimestamp(p)
       \/ Quit(p)
  \/ Tick
SpecLock == InitLock /\ [][NextLock]_vars

(***************************************************************************)
(* migrate_config                                                          *)
(***************************************************************************)

(* what every settings step leaves alone *)
outsideSettings == <<editorVars, platform_name, annotate_captures, appVars,
                     lockVars>>

(* the configurations a config.json of an earlier or later version can hold:
   some keys missing, some with values the user chose, a key the program no
   longer knows, and a config_version that is missing or an integer *)
OptionalKeys == {"format", "annotate_captures", "annotate_alt_tool"}
UserValue(key) ==
  CASE key = "format" -> "png"
    [] key = "annotate_captures" -> TRUE
    [] key = "annotate_alt_tool" -> "rect"
Versions == {1, 4, CONFIG_VERSION, CONFIG_VERSION + 1}
StoredConfigs ==
  { [k \in ((DOMAIN DEFAULT_CONFIG \ missing) \cup extra) |->
       IF k = "config_version" THEN version
       ELSE IF k \in user THEN UserValue(k)
       ELSE IF k = "legacy_key" THEN "legacy"
       ELSE DEFAULT_CONFIG[k]] :
    missing \in SUBSET (OptionalKeys \cup {"config_version"}),
    user \in SUBSET OptionalKeys,
    extra \in {{}, {"legacy_key"}},
    version \in Versions }

(* line 92: config.get("config_version", 1) *)
ConfigVersionOf(c) ==
  IF "config_version" \in DOMAIN c THEN c["config_version"] ELSE 1

(* variant: the defaults replace the values already present *)
FillDefaults_Overwrites(c) ==
  [k \in (DOMAIN c \cup DOMAIN DEFAULT_CONFIG) |->
     IF k \in DOMAIN DEFAULT_CONFIG THEN DEFAULT_CONFIG[k] ELSE c[k]]

(* lines 96-100: every key of DEFAULT_CONFIG missing from config is added
   with its default value *)
FillDefaults(c) ==
  [k \in (DOMAIN c \cup DOMAIN DEFAULT_CONFIG) |->
     IF k \in DOMAIN c THEN c[k] ELSE DEFAULT_CONFIG[k]]

(* migrate_config: the dictionary after the call and the value returned *)
MigrateConfig(c) ==
  LET version == ConfigVersionOf(c)
      filled == FillDefaults(c)
      added == DOMAIN filled # DOMAIN c
  IN IF version < CONFIG_VERSION
     THEN [config |-> [filled EXCEPT !["config_version"] = CONFIG_VERSION],
           changed |-> TRUE]
     ELSE [config |-> filled, changed |-> added]

(* a call of migrate_config(config) *)
MigrateConfigCalled ==
  /\ Len(migrate_returns) < MaxMigrations
  /\ config' = MigrateConfig(config).config
  /\ migrate_returns' = Append(migrate_returns, MigrateConfig(config).changed)
  /\ UNCHANGED <<outsideSettings, dialogVars, hotkeyVars>>

InitConfig ==
  /\ EditorFields(Screen, SmallImage, {TRUE}, {_DEFAULT_MODIFIER_TOOLS})
  /\ AppFields({"Windows"}, {FALSE})
  /\ LockFields
  /\ ConfigFields(StoredConfigs)
  /\ DialogFields
  /\ HotkeyFields({DEFAULT_CONFIG.hotkey_region})
NextConfig == MigrateConfigCalled
SpecConfig == InitConfig /\ [][NextConfig]_vars

(***************************************************************************)
(* SettingsDialog: the debounced on_change                                 *)
(***************************************************************************)

(* the values the user can give the two widgets that are followed here *)
WidgetChanges ==
  {<<"fmt_combo", "jpg">>, <<"fmt_combo", "png">>,
   <<"save_disk_check", TRUE>>, <<"save_disk_check", FALSE>>}

(* get_config, for the widgets that are followed *)
GetConfig == [format |-> widgets.fmt_combo,
              save_to_disk |-> widgets.save_disk_check]

(* variant: the change is pushed at once and again when the timer expires *)
EmitChange_Immediate == Append(on_change_calls, GetConfig')

(* _emit_change: on_change is not called, the timer is (re)started *)
EmitChange == on_change_calls

(* _flush_change: on_change(self.get_config()) *)
FlushChange == Append(on_change_calls, GetConfig)

(* a widget's signal after the user changed it: _emit_change *)
SettingChanged(widget, value) ==
  /\ dialog_open
  /\ changes < MaxChanges
  /\ changes' = changes + 1
  /\ widgets' = [widgets EXCEPT ![widget] = value]
  /\ on_change_calls' = EmitChange
  /\ _save_timer' = TRUE
  /\ bursts' = IF _save_timer THEN bursts ELSE bursts + 1
  /\ UNCHANGED <<dialog_open, outsideSettings, migrateVars, hotkeyVars>>

(* the single-shot timer expires: _flush_change *)
SaveTimerExpired ==
  /\ _save_timer
  /\ _save_timer' = FALSE
  /\ on_change_calls' = FlushChange
  /\ UNCHANGED <<dialog_open, widgets, bursts, changes, outsideSettings,
                 migrateVars, hotkeyVars>>

(* done(result): a pending timer is stopped and flushed, the dialog closes *)
Done ==
  /\ dialog_open
  /\ dialog_open' = FALSE
  /\ _save_timer' = FALSE
  /\ on_change_calls' = IF _save_timer THEN FlushChange ELSE on_change_calls
  /\ UNCHANGED <<widgets, bursts, changes, outsideSettings, migrateVars,
                 hotkeyVars>>

InitDialog == InitEditor(Screen, SmallImage, {TRUE}, {_DEFAULT_MODIFIER_TOOLS})
NextDialog ==
  \/ \E c \in WidgetChanges : SettingChanged(c[1], c[2])
  \/ SaveTimerExpired
  \/ Done
SpecDialog == InitDialog /\ [][NextDialog]_vars

(***************************************************************************)
(* HotkeyEdit: recording a key combination                                 *)
(***************************************************************************)

NoToken == "None"

(* chr(key).lower() for Key_A..Key_Z, chr(key) for Key_0..Key_9 and
   f"<f{n}>" for n in 1..12 *)
LowerLetters ==
  <<"a", "b", "c", "d", "e", "f", "g", "h", "i", "j", "k", "l", "m", "n",
    "o", "p", "q", "r", "s", "t", "u", "v", "w", "x", "y", "z">>
DigitChars == <<"0", "1", "2", "3", "4", "5", "6", "7", "8", "9">>
FunctionKeyTokens ==
  <<"<f1>", "<f2>", "<f3>", "<f4>", "<f5>", "<f6>", "<f7>", "<f8>", "<f9>",
    "<f10>", "<f11>", "<f12>">>

(* HotkeyEdit._key_to_pynput *)
KeyToPynput(key) ==
  IF Key_A <= key /\ key <= Key_Z THEN LowerLetters[key - Key_A + 1]
  ELSE IF Key_0 <= key /\ key <= Key_9 THEN DigitChars[key - Key_0 + 1]
  ELSE IF Key_F1 <= key /\ key <= Key_F12
       THEN FunctionKeyTokens[key - Key_F1 + 1]
  ELSE CASE key = Key_Space -> "<space>"
         [] key = Key_Tab -> "<tab>"
         [] key = Key_Return -> "<enter>"
         [] key = Key_Enter -> "<enter>"
         [] key = Key_Backspace -> "<backspace>"
         [] key = Key_Delete -> "<delete>"
         [] key = Key_Home -> "<home>"
         [] key = Key_End -> "<end>"
         [] key = Key_PageUp -> "<page_up>"
         [] key = Key_PageDown -> "<page_down>"
         [] key = Key_Up -> "<up>"
         [] key = Key_Down -> "<down>"
         [] key = Key_Left -> "<left>"
         [] key = Key_Right -> "<right>"
         [] key = Key_Insert -> "<insert>"
         [] OTHER -> NoToken

(* variant: shift is listed before ctrl and alt *)
ModifierParts_ShiftFirst(mods) ==
  (IF "shift" \in mods THEN <<"<shift>">> ELSE << >>)
  \o (IF "ctrl" \in mods THEN <<"<ctrl>">> ELSE << >>)
  \o (IF "alt" \in mods THEN <<"<alt>">> ELSE << >>)
  \o (IF "meta" \in mods THEN <<"<cmd>">> ELSE << >>)

(* lines 258-266: the parts for the held modifiers *)
ModifierParts(mods) ==
  (IF "ctrl" \in mods THEN <<"<ctrl>">> ELSE << >>)
  \o (IF "alt" \in mods THEN <<"<alt>">> ELSE << >>)
  \o (IF "shift" \in mods THEN <<"<shift>">> ELSE << >>)
  \o (IF "meta" \in mods THEN <<"<cmd>">> ELSE << >>)

(* the keys that are modifiers on their own (lines 246-247) *)
StandaloneModifiers == {Key_Control, Key_Shift, Key_Alt, Key_Meta}

(* key presses: a key code and the modifiers held (a modifier key reports
   itself among them) *)
(* 83 is Key_S, 53 is Key_5; Key_Comma has no token *)
HotkeyKeys ==
  {Key_Control, Key_Shift, Key_Escape, Key_A, 83, Key_Z, 53, Key_F1,
   Key_F12, Key_Return, Key_Enter, Key_Space, Key_Comma}
HotkeyMods ==
  {{}, {"ctrl"}, {"shift"}, {"alt", "ctrl"}, {"meta", "shift", "alt"},
   {"ctrl", "alt", "shift", "meta"}}
HotkeyKeyInputs ==
  {i \in HotkeyKeys \X HotkeyMods :
     /\ i[1] = Key_Control => "ctrl" \in i[2]
     /\ i[1] = Key_Shift => "shift" \in i[2]}

(* mousePressEvent: recording starts *)
HotkeyMousePress ==
  /\ _recording' = TRUE
  /\ last_event' = [kind |-> "mouse"]
  /\ UNCHANGED <<_value, changed_emitted, outsideSettings, migrateVars,
                 dialogVars>>

(* focusOutEvent: recording stops, the display shows the stored value *)
HotkeyFocusOut ==
  /\ _recording' = FALSE
  /\ last_event' = [kind |-> "focusOut"]
  /\ UNCHANGED <<_value, changed_emitted, outsideSettings, migrateVars,
                 dialogVars>>

(* keyPressEvent *)
HotkeyKeyPress(key, mods) ==
  /\ changed_emitted < MaxKeyPresses
  /\ last_event' = [kind |-> "key", key |-> key, mods |-> mods]
  /\ IF ~_recording \/ key \in StandaloneModifiers
     THEN UNCHANGED <<_value, _recording, changed_emitted>>
     ELSE IF key = Key_Escape
     THEN /\ _recording' = FALSE
          /\ UNCHANGED <<_value, changed_emitted>>
     ELSE IF ModifierParts(mods) = << >> \/ KeyToPynput(key) = NoToken
     THEN UNCHANGED <<_value, _recording, changed_emitted>>
     ELSE /\ _value' = Append(ModifierParts(mods), KeyToPynput(key))
          /\ _recording' = FALSE
          /\ changed_emitted' = changed_emitted + 1
  /\ UNCHANGED <<outsideSettings, migrateVars, dialogVars>>

InitHotkey == InitEditor(Screen, SmallImage, {TRUE}, {_DEFAULT_MODIFIER_TOOLS})
NextHotkey ==
  \/ HotkeyMousePress
  \/ HotkeyFocusOut
  \/ \E i \in HotkeyKeyInputs : HotkeyKeyPress(i[1], i[2])
SpecHotkey == InitHotkey /\ [][NextHotkey]_vars

(***************************************************************************)
(* Properties                                                              *)
(***************************************************************************)

(* the interaction states of the editor *)
InDrawing == drawing /\ current_ann # NoAnn /\ dragging_text_idx = NoIdx
InDraggingText == dragging_text_idx # NoIdx
GestureInProgress == (drawing /\ current_ann # NoAnn) \/ InDraggingText
NoGesture == ~drawing /\ current_ann = NoAnn /\ dragging_text_idx = NoIdx

(* a text that is empty or whitespace only *)
IsBlank(t) == \A i \in 1..Len(t) : t[i] \in Whitespace

(* the ways undo and redo are requested *)
UndoInvoked ==
  \/ UndoRequested
  \/ text_input = NoInput /\ KeyPress("z", {"ctrl"}, << >>, TRUE, TRUE)
RedoInvoked ==
  \/ RedoRequested
  \/ text_input = NoInput /\ KeyPress("z", {"ctrl", "shift"}, << >>, TRUE, TRUE)

(* the ways a save is invoked: Enter key with no text input, or Save button *)
SaveInvoked ==
  \E c \in BOOLEAN, f \in BOOLEAN :
    \/ SaveRequested(c, f)
    \/ text_input = NoInput /\ KeyPress("enter", {}, << >>, c, f)

(* C1: whenever save is invoked, the operations the compositor draws are
   the operations the renderer is showing at that moment (committed
   annotations in order, then the in-progress annotation if active). *)
C1_SaveDrawsWhatIsShown ==
  [][SaveInvoked => composited' = PaintEvent]_vars

(* C2: undo with no gesture in progress and committed non-empty removes
   exactly the last committed annotation and pushes it on top of redo,
   everything else in both lists unchanged; with committed empty it
   changes nothing. *)
C2_UndoMovesLast ==
  [][(UndoInvoked /\ ~GestureInProgress /\ ~drawing) =>
       IF undo_stack # << >>
       THEN /\ undo_stack' = SubSeq(undo_stack, 1, Len(undo_stack) - 1)
            /\ redo_stack' = Append(redo_stack, undo_stack[Len(undo_stack)])
       ELSE UNCHANGED <<undo_stack, redo_stack>>]_vars

(* an undo has moved one annotation to redo and left another committed *)
C2_Witness ==
  /\ ~closed /\ ~drawing
  /\ Len(undo_stack) = 1 /\ Len(redo_stack) = 1
  /\ undo_enabled /\ redo_enabled

(* C3: redo with no gesture in progress and redo non-empty removes exactly
   the top of redo and appends it to committed, everything else unchanged;
   with redo empty it changes nothing. *)
C3_RedoMovesTop ==
  [][(RedoInvoked /\ ~GestureInProgress /\ ~drawing) =>
       IF redo_stack # << >>
       THEN /\ undo_stack' = Append(undo_stack, redo_stack[Len(redo_stack)])
            /\ redo_stack' = SubSeq(redo_stack, 1, Len(redo_stack) - 1)
       ELSE UNCHANGED <<undo_stack, redo_stack>>]_vars

(* two annotations are on redo, so a redo has a top and a rest to keep *)
C3_Witness ==
  /\ ~closed /\ ~drawing /\ redo_enabled
  /\ Len(redo_stack) = 2 /\ redo_stack[1] # redo_stack[2]

(* C4: while a gesture is in progress (Drawing or DraggingText), undo and
   redo, by keyboard or by toolbar button, leave committed and redo
   unchanged. *)
C4_NoUndoRedoDuringGesture ==
  [][(GestureInProgress /\ (UndoInvoked \/ RedoInvoked)) =>
       UNCHANGED <<undo_stack, redo_stack>>]_vars

(* a gesture is in progress while both toolbar buttons are enabled *)
C4_Witness ==
  /\ ~closed /\ GestureInProgress
  /\ undo_enabled /\ redo_enabled
  /\ undo_stack # << >> /\ redo_stack # << >>

(* the commits: pointer-up of an accepted shape, confirmation of a text *)
ShapeCommitted ==
  InDrawing /\ ~Discard(current_ann) /\ MouseRelease("left")
TextCommitted(t) ==
  /\ text_input # NoInput /\ ~IsBlank(t)
  /\ TextInputKey("enter", t) \/ KeyPress("enter", {}, t, TRUE, TRUE)

(* C5: every commit appends exactly one annotation to the end of committed
   and leaves redo empty, so a redo right after it changes nothing. *)
C5_CommitAppendsAndClearsRedo ==
  [][(ShapeCommitted \/ \E t \in Texts : TextCommitted(t)) =>
       /\ Len(undo_stack') = Len(undo_stack) + 1
       /\ SubSeq(undo_stack', 1, Len(undo_stack)) = undo_stack
       /\ ShapeCommitted => undo_stack'[Len(undo_stack')] = current_ann
       /\ ~ShapeCommitted => undo_stack'[Len(undo_stack')].kind = "text"
       /\ redo_stack' = << >>
       /\ RedoStacks(drawing', undo_stack', redo_stack')
            = <<undo_stack', redo_stack'>>]_vars

(* a shape and then a text have been committed, and redo is empty *)
C5_Witness ==
  /\ ~closed /\ Len(undo_stack) = 2 /\ redo_stack = << >> /\ ~redo_enabled
  /\ undo_stack[1].kind # "text" /\ undo_stack[2].kind = "text"

(* n undo() calls, then n redo() calls, on a pair of stacks *)
RECURSIVE UndoTimes(_, _, _, _)
UndoTimes(n, isDrawing, u, r) ==
  IF n = 0 THEN <<u, r>>
  ELSE LET s == UndoStacks(isDrawing, u, r)
       IN UndoTimes(n - 1, isDrawing, s[1], s[2])

RECURSIVE RedoTimes(_, _, _, _)
RedoTimes(n, isDrawing, u, r) ==
  IF n = 0 THEN <<u, r>>
  ELSE LET s == RedoStacks(isDrawing, u, r)
       IN RedoTimes(n - 1, isDrawing, s[1], s[2])

UndoRedoRoundTrip(n) ==
  LET a == UndoTimes(n, drawing, undo_stack, redo_stack)
  IN RedoTimes(n, drawing, a[1], a[2])

(* C6 as stated: from a committed list of N annotations and no gesture in
   progress, N undos followed by N redos restore committed exactly and
   leave redo empty. *)
C6_RoundTripLeavesRedoEmpty ==
  (~closed /\ ~drawing) =>
    UndoRedoRoundTrip(Len(undo_stack)) = <<undo_stack, << >>>>

(* C6 amended: from a committed list of N annotations and no gesture in
   progress, N undos followed by N redos restore committed exactly (same
   annotations, same order) and leave redo exactly as it was before the
   undos, hence empty whenever it was empty before them. *)
C6_RoundTripRestoresBoth ==
  (~closed /\ ~drawing) =>
    /\ UndoTimes(Len(undo_stack), drawing, undo_stack, redo_stack)[1] = << >>
    /\ UndoRedoRoundTrip(Len(undo_stack)) = <<undo_stack, redo_stack>>

(* an annotation is committed while another one, undone earlier, is still on
   redo: the round trip has a redo list to leave as it was *)
C6_Witness ==
  /\ ~closed /\ ~drawing /\ current_ann = NoAnn
  /\ Len(undo_stack) = 1 /\ Len(redo_stack) = 1
  /\ undo_stack[1] # redo_stack[1]

(* the minimum-size rule in the claim's words *)
TooSmall(ann) ==
  \/ ann.kind = "freehand" /\ Len(ann.points) < 2
  \/ ann.kind = "arrow"
       /\ ArrowLen2(ann) < (MIN_DRAG_SIZE * Unit) * (MIN_DRAG_SIZE * Unit)
  \/ ann.kind \in {"oval", "rect"}
       /\ ann.rect.w < MIN_DRAG_SIZE * Unit
       /\ ann.rect.h < MIN_DRAG_SIZE * Unit

(* C7: on left pointer-up in Drawing state the in-progress annotation is
   discarded exactly when it is a freehand with fewer than 2 points, an
   arrow shorter than 3, or an oval/rect with width and height both below 3;
   otherwise it is appended to committed.  Either way the editor is back in
   Idle (no gesture) with no in-progress annotation. *)
C7_MinimumSizeRule ==
  [][(InDrawing /\ MouseRelease("left")) =>
       /\ TooSmall(current_ann) => undo_stack' = undo_stack
       /\ ~TooSmall(current_ann) => undo_stack' = Append(undo_stack, current_ann)
       /\ ~drawing' /\ current_ann' = NoAnn /\ dragging_text_idx' = NoIdx]_vars

(* a shape gesture was started and released and nothing was ever committed:
   the gesture was discarded *)
C7_Witness ==
  /\ ~closed /\ NoGesture /\ drag_start # NoPoint
  /\ undo_stack = << >> /\ redo_stack = << >>

(* the rejected gestures: a drag discarded by the minimum-size rule, a text
   input confirmed blank, a text input cancelled with Escape *)
GestureRejected ==
  \/ InDrawing /\ TooSmall(current_ann) /\ MouseRelease("left")
  \/ /\ text_input # NoInput
     /\ \/ \E t \in Texts :
             /\ IsBlank(t)
             /\ TextInputKey("enter", t) \/ KeyPress("enter", {}, t, TRUE, TRUE)
        \/ TextInputKey("escape", << >>)
        \/ KeyPress("escape", {}, << >>, TRUE, TRUE)

(* C8: a rejected gesture leaves committed and redo exactly as they were
   and reports nothing to the confirm sink. *)
C8_RejectionIsSilent ==
  [][GestureRejected =>
       /\ UNCHANGED <<undo_stack, redo_stack, done_calls>>
       /\ ~closed']_vars

(* a text input is pending over non-empty committed and redo lists *)
C8_Witness ==
  /\ ~closed /\ text_input # NoInput
  /\ undo_stack # << >> /\ redo_stack # << >> /\ done_calls = << >>

(* the rectangle the layout computes and the backdrop is drawn into *)
ImageRect == [x |-> Layout.x, y |-> Layout.y, w |-> Layout.w, h |-> Layout.h]

(* C9: a left pointer-down outside the displayed image area is a no-op: no
   gesture starts, no text input opens, and committed, redo, the
   in-progress annotation and the drag reference are unchanged. *)
C9_PressOutsideImageIsNoop ==
  [][\A i \in PressInputs \cup PressInputsScaled :
       (i[1] = "left" /\ ~RectContains(ImageRect, i[2])
        /\ MousePress(i[1], i[2], i[3])) =>
         UNCHANGED <<drawing, current_ann, drag_start, text_input,
                     dragging_text_idx, text_drag_offset,
                     undo_stack, redo_stack>>]_vars

(* C10: in every reachable state the in-progress annotation and the
   dragged-text index are never both set. *)
C10_NeverBothDragReferences ==
  ~(current_ann # NoAnn /\ dragging_text_idx # NoIdx)

(* a right pointer-down, at any point and with any modifiers held *)
RightClick ==
  \E i \in PressInputs \cup PressInputsScaled :
    i[1] = "right" /\ MousePress(i[1], i[2], i[3])

(* C11: a right-click in any state of an open editor closes it and delivers
   (path = None, error = "cancelled") to on_done, and the compositor does
   not run: no bitmap exists to hand to the clipboard or to disk. *)
C11_RightClickCancels ==
  [][RightClick =>
       /\ closed' /\ saved'
       /\ done_calls' = Append(done_calls, Cancelled)
       /\ composited' = composited /\ composited = NoImage]_vars

(* the editor was closed by a cancel: one "cancelled" report, no bitmap *)
C11_Witness ==
  closed /\ saved /\ done_calls = <<Cancelled>> /\ composited = NoImage

(* C12: over the life of a session on_done is invoked exactly once: never
   while the editor is open, once when it has closed, whichever handler
   closed it; the closeEvent run by the close() of a save or a cancel adds
   no second call, and a window close from outside reports "cancelled". *)
C12_OnDoneExactlyOnce ==
  /\ [](Len(done_calls) = IF closed THEN 1 ELSE 0)
  /\ [][CloseEvent => done_calls' = <<Cancelled>>]_vars

(* the editor was closed by a save: one report, and a composited bitmap *)
C12_Witness ==
  closed /\ saved /\ Len(done_calls) = 1 /\ composited # NoImage

(* a save whose collaborators answer clipboard_ok and file_ok *)
SaveInvokedWith(clipboard_ok, file_ok) ==
  \/ SaveRequested(clipboard_ok, file_ok)
  \/ text_input = NoInput /\ KeyPress("enter", {}, << >>, clipboard_ok, file_ok)

(* C13: whenever a downstream step of a save fails (the clipboard copy, or
   the file save when saving to disk is enabled), on_done receives an error
   that is not None. *)
C13_SaveFailureIsReported ==
  [][\A c \in BOOLEAN, f \in BOOLEAN :
       (SaveInvokedWith(c, f) /\ (~c \/ (save_to_disk /\ ~f))) =>
         done_calls'[Len(done_calls')].error # "None"]_vars

(* the tool the claim names for a set of held modifiers: the configured tool
   of the held modifier of highest priority (Shift, then Ctrl, then Alt),
   the toolbar selection when none is held or its slot is "none" *)
ModifierPriority == [shift |-> 1, ctrl |-> 2, alt |-> 3]
ClaimedTool(mods) ==
  IF mods = {} THEN cur_tool
  ELSE LET first == CHOOSE m \in mods :
                      \A n \in mods : ModifierPriority[m] <= ModifierPriority[n]
       IN IF _modifier_tools[first] = "none" THEN cur_tool
          ELSE _modifier_tools[first]

(* what a pointer-down at image point pos does when it resolves to tool *)
ResolvedAs(tool, pos) ==
  IF tool = "text"
  THEN /\ UNCHANGED <<current_ann, drag_start>>
       /\ dragging_text_idx' # NoIdx \/ text_input' = [image_pos |-> pos]
  ELSE /\ current_ann' = NewAnnotation(tool, pos)
       /\ drag_start' = pos /\ drawing'

(* a left pointer-down that reaches tool resolution: not on the toolbar, and
   at a point that maps into the image *)
Accepted(button, sp) ==
  /\ button = "left" /\ ~RectContains(ToolbarGeom, sp)
  /\ ToImageCoords(sp) # NoPoint

(* C14: every accepted pointer-down starts the gesture of the tool resolved
   from the modifiers held at that pointer-down, whatever gestures came
   before: Shift before Ctrl before Alt, the toolbar selection when no
   modifier is held or the slot is "none". *)
C14_ToolResolvedPerGesture ==
  [][\A i \in PressInputsTools :
       (Accepted(i[1], i[2]) /\ MousePress(i[1], i[2], i[3])) =>
         ResolvedAs(ClaimedTool(i[3]), ToImageCoords(i[2]))]_vars

(* an oval is committed and a rect is being drawn in a session whose Shift
   slot is "none": two gestures resolved from different modifiers *)
C14_Witness ==
  /\ ~closed /\ _modifier_tools.shift = "none"
  /\ undo_stack # << >> /\ undo_stack[1].kind = "oval"
  /\ drawing /\ current_ann # NoAnn /\ current_ann.kind = "rect"

(* the tools the claim gives the default mapping *)
ClaimedDefaultTools == [shift |-> "arrow", ctrl |-> "oval", alt |-> "rect"]

(* C15: in an editor constructed without a modifier_tools argument, a
   pointer-down with Shift alone held starts an arrow, with Ctrl alone an
   oval, and with Alt alone a rect. *)
C15_DefaultModifierTools ==
  [][\A i \in PressInputs : \A m \in Modifiers :
       (i[3] = {m} /\ Accepted(i[1], i[2]) /\ MousePress(i[1], i[2], i[3])) =>
         ResolvedAs(ClaimedDefaultTools[m], ToImageCoords(i[2]))]_vars

(* Enter or Escape pressed while a text input is active, with the focus on
   the text input or on the editor *)
TextInputEnterOrEscape ==
  /\ text_input # NoInput
  /\ \E k \in {"enter", "escape"}, t \in Texts :
       TextInputKey(k, t) \/ KeyPress(k, {}, t, TRUE, TRUE)

(* C16: while a text input is active, Enter and Escape act only on it: no
   save-and-close and no cancel-and-close runs, and after the key the text
   input is gone, the editor is still open and it is in Idle (no gesture). *)
C16_TextInputKeysStayLocal ==
  [][TextInputEnterOrEscape =>
       /\ text_input' = NoInput /\ ~closed' /\ ~saved'
       /\ UNCHANGED <<done_calls, composited>>
       /\ NoGesture']_vars

(* image points to hit-test: the image points of the pointer positions *)
ProbePoints == {ClampToImage(sp) : sp \in {PtOut, PtA, PtNear, PtFar, PtEdge}}

(* the committed text annotations whose bounding box, padded by 4 image
   pixels on each side, contains the image point *)
TextHits(pos) ==
  {i \in 1..Len(undo_stack) :
     /\ undo_stack[i].kind = "text"
     /\ LET b == TextBoundingRect(undo_stack[i])
        IN /\ b.x - 4 * Unit <= pos.x /\ pos.x <= b.x + b.w + 4 * Unit
           /\ b.y - 4 * Unit <= pos.y /\ pos.y <= b.y + b.h + 4 * Unit}

(* C17: text hit-testing returns the largest index of a committed text
   annotation whose padded bounding box contains the point, and None when
   there is none; annotations of other kinds are never returned. *)
C17_HitTestTopmostText ==
  \A pos \in ProbePoints :
    LET hit == HitTestText(undo_stack, pos)
    IN /\ TextHits(pos) = {} => hit = NoIdx
       /\ TextHits(pos) # {} =>
            /\ hit \in TextHits(pos)
            /\ \A i \in TextHits(pos) : i <= hit

(* two committed texts cover the same point and the upper one is hit *)
C17_Witness ==
  \E pos \in ProbePoints :
    TextHits(pos) = {1, 2} /\ HitTestText(undo_stack, pos) = 2

(* C18: for every image of positive size and every display area the scale
   equals min(displayWidth/imageWidth, displayHeight/imageHeight, 1), so it
   never exceeds 1, and the scaled image is centred in the display area; a
   200x150 image in a 400x300 display has scale 1, offsets (100, 75), and
   screen point (150, 100) maps to image point (50, 25). *)
C18_LayoutScaleAndCentering ==
  /\ (img.w > 0 /\ img.h > 0) =>
       /\ layout.num * img.w <= screen.w * layout.den
       /\ layout.num * img.h <= screen.h * layout.den
       /\ layout.num <= layout.den
       /\ \/ layout.num * img.w = screen.w * layout.den
          \/ layout.num * img.h = screen.h * layout.den
          \/ layout.num = layout.den
       /\ (screen.w - layout.x - layout.w) - layout.x \in {0, 1}
       /\ (screen.h - layout.y - layout.h) - layout.y \in {0, 1}
  /\ (img = [w |-> 200, h |-> 150] /\ screen = [w |-> 400, h |-> 300]) =>
       /\ layout.num = layout.den
       /\ layout.x = 100 /\ layout.y = 75
       /\ ToImageCoords([x |-> 150, y |-> 100]) = [x |-> 50, y |-> 25]

(* a pointer-down at (150, 100) on the 200x150 image in the 400x300 display
   has started a shape at image point (50, 25) *)
C18_Witness ==
  /\ img = [w |-> 200, h |-> 150] /\ screen = [w |-> 400, h |-> 300]
  /\ drawing /\ drag_start = [x |-> 50, y |-> 25]

(* screen points to convert: the pointer positions of the sessions *)
ScreenProbes == {PtIn, PtA, PtOut, PtEdge, PtToolbar, PtFarAbove, PtFarBelow}

(* C19: toImageCoords returns None for every screen point that lies outside
   the computed display rectangle of the image, for every image size and
   display size. *)
C19_OutsideDisplayRectIsNone ==
  \A sp \in ScreenProbes :
    ~RectContains(ImageRect, sp) => ToImageCoords(sp) = NoPoint

(* C20: clampToImage always returns a point, and for every screen point,
   however far outside the image, the point has 0 <= x <= imageWidth - 1 and
   0 <= y <= imageHeight - 1. *)
C20_ClampStaysInImage ==
  \A sp \in ScreenProbes :
    LET p == ClampToImage(sp)
    IN /\ p # NoPoint
       /\ 0 <= p.x /\ p.x <= (img.w - 1) * Unit
       /\ 0 <= p.y /\ p.y <= (img.h - 1) * Unit

(* a freehand stroke on a scaled-down image was dragged far below the screen
   and its last point is the bottom-right pixel of the image *)
C20_Witness ==
  /\ layout.num < layout.den
  /\ drawing /\ current_ann # NoAnn /\ current_ann.kind = "freehand"
  /\ current_ann.points[Len(current_ann.points)] =
       [x |-> (img.w - 1) * Unit, y |-> (img.h - 1) * Unit]

(* C21: for every screen point p at which toImageCoords(p) is defined, the
   paint transform (scale by the layout scale, then translate by the
   display rectangle origin) applied to toImageCoords(p) gives back p. *)
C21_PaintTransformInvertsInput ==
  \A sp \in ScreenProbes :
    ToImageCoords(sp) # NoPoint =>
      PaintTransform(ToImageCoords(sp)) =
        [x |-> sp.x * ScreenUnit, y |-> sp.y * ScreenUnit]

(* on a scaled-down image shown with a vertical margin, a pointer-down has
   started a shape at the image point of the pointer position *)
C21_Witness ==
  /\ layout.num < layout.den /\ layout.y > 0
  /\ drawing /\ drag_start = ToImageCoords(PtIn)
  /\ PaintTransform(drag_start) =
       [x |-> PtIn.x * ScreenUnit, y |-> PtIn.y * ScreenUnit]

(* the arrows a paint pass draws: committed arrows and the arrow in
   progress, of length at least 1 *)
PaintedArrows ==
  {PaintEvent[i].ann :
     i \in {j \in 1..Len(PaintEvent) : PaintEvent[j].ann.kind = "arrow"}}

(* C22 as stated: for every arrow with stroke width in [1, 20] and nonzero
   length, the head size never exceeds 45% of the arrow's length. *)
C22_HeadAtMostCap ==
  \A a \in PaintedArrows :
    ArrowHeadSq(a.width, ArrowLen2(a)) <= HeadCapSq(ArrowLen2(a))

(* C22 amended: the head size never exceeds the larger of 45% of the
   arrow's length and 6 units. *)
C22_HeadAtMostCapOrFloor ==
  \A a \in PaintedArrows :
    ArrowHeadSq(a.width, ArrowLen2(a)) <=
      Max(HeadCapSq(ArrowLen2(a)), HeadFloorSq)

(* a committed arrow drawn with stroke width 20 whose head is held at 45%
   of its length, above the 6 unit minimum *)
C22_Witness ==
  /\ undo_stack # << >> /\ undo_stack[1].kind = "arrow"
  /\ undo_stack[1].width = 20
  /\ ArrowHeadSq(20, ArrowLen2(undo_stack[1])) = HeadCapSq(ArrowLen2(undo_stack[1]))
  /\ HeadCapSq(ArrowLen2(undo_stack[1])) > HeadFloorSq
  /\ HeadByWidthSq(20) > HeadCapSq(ArrowLen2(undo_stack[1]))

(* C23: for every arrow with stroke width in [1, 20] and nonzero length the
   head size never falls below 6 units, and for a fixed length it does not
   decrease when the stroke width increases. *)
C23_HeadAtLeastFloorAndMonotone ==
  \A a \in PaintedArrows :
    /\ a.width \in 1..20
    /\ ArrowHeadSq(a.width, ArrowLen2(a)) >= HeadFloorSq
    /\ \A w1 \in 1..20 : \A w2 \in w1..20 :
         /\ ArrowHeadSq(w1, ArrowLen2(a)) >= HeadFloorSq
         /\ ArrowHeadSq(w1, ArrowLen2(a)) <= ArrowHeadSq(w2, ArrowLen2(a))

(* a committed arrow drawn with stroke width 1, whose head is raised to the
   6 unit minimum, while a wider stroke gives the same arrow a larger head *)
C23_Witness ==
  /\ undo_stack # << >> /\ undo_stack[1].kind = "arrow"
  /\ undo_stack[1].width = 1
  /\ HeadByWidthSq(1) < HeadFloorSq
  /\ ArrowHeadSq(1, ArrowLen2(undo_stack[1])) = HeadFloorSq
  /\ ArrowHeadSq(12, ArrowLen2(undo_stack[1])) > HeadFloorSq

(* the compositor runs: a save, or a call of _composite() *)
Compositing == SaveInvoked \/ CompositeCalled

(* C24: compositing when committed is empty, including after every commit
   has been undone and whatever redo holds, yields the source bitmap: no
   drawing operation is applied to the copy. *)
C24_EmptyCompositeIsSource ==
  [][(undo_stack = << >> /\ Compositing) => composited' = << >>]_vars

(* _composite() has returned the unchanged copy while the only commit was
   undone and is held by redo *)
C24_Witness ==
  ~closed /\ undo_stack = << >> /\ redo_stack # << >> /\ composited = << >>

(* C25: painting and compositing are read-only on the session: neither
   changes the source bitmap, committed, redo or the in-progress annotation
   (nor any annotation's fields), and a second composite call with no event
   in between produces the result of the first. *)
C25_PaintAndCompositeReadOnly ==
  [][(Paint \/ CompositeCalled) =>
       /\ UNCHANGED <<img, undo_stack, redo_stack, current_ann>>
       /\ CompositeCalled => composited' = Composite']_vars

(* with a stroke committed and another in progress, the editor was painted
   and _composite() returned the committed stroke *)
C25_Witness ==
  /\ ~closed /\ drawing /\ current_ann # NoAnn /\ undo_stack # << >>
  /\ painted = <<Backdrop>> \o PaintEvent
  /\ composited = Composite /\ composited # << >>

(* the annotations a paint pass is to draw: the committed ones in insertion
   order, then the one in progress while a gesture is drawing *)
DrawnAnnotations ==
  undo_stack \o (IF drawing /\ current_ann # NoAnn THEN <<current_ann>>
                 ELSE << >>)

(* an annotation whose drawing routine issues an operation *)
Visible(ann) == PaintAnnotation(ann) # << >>

(* a freehand annotation with fewer than 2 points *)
ShortFreehand(ann) == ann.kind = "freehand" /\ Len(ann.points) < 2

(* C26: each paint pass draws the backdrop first, then every committed
   annotation in insertion order, then the in-progress annotation last and
   only while a gesture is active; a freehand annotation with fewer than 2
   points produces no drawing operation in painting or compositing. *)
C26_PaintOrder ==
  /\ [][Paint =>
          LET e == SelectSeq(DrawnAnnotations, Visible)
          IN /\ painted'[1] = Backdrop
             /\ Len(painted') = Len(e) + 1
             /\ \A i \in 1..Len(e) :
                  painted'[i + 1].op # "backdrop" /\ painted'[i + 1].ann = e[i]
             /\ \A i \in 1..Len(DrawnAnnotations) :
                  ShortFreehand(DrawnAnnotations[i]) =>
                    ~Visible(DrawnAnnotations[i])]_vars
  /\ [](\A i \in 2..Len(painted) : ~ShortFreehand(painted[i].ann))
  /\ [](composited # NoImage =>
          \A i \in 1..Len(composited) : ~ShortFreehand(composited[i].ann))

(* a paint pass has drawn the backdrop, two different committed annotations
   and the annotation in progress *)
C26_Witness ==
  /\ Len(undo_stack) = 2 /\ undo_stack[1] # undo_stack[2]
  /\ drawing /\ current_ann # NoAnn
  /\ Len(painted) = 4 /\ painted = <<Backdrop>> \o PaintEvent

(* a capture trigger: region, window or fullscreen, from a hotkey or the
   tray menu *)
Trigger ==
  \/ \E ok \in BOOLEAN : TriggerCapture(ok)
  \/ \E ok \in BOOLEAN : TriggerWindowCapture(ok)
  \/ \E ok \in BOOLEAN, c \in BOOLEAN, f \in BOOLEAN : TriggerFullscreen(ok, c, f)

(* C27: while a capture is in progress any region, window or fullscreen
   trigger is a no-op: capturing stays True, no second overlay or editor is
   created and no notification is shown, so at most one capture session is
   active at a time. *)
C27_TriggerWhileCapturingIsNoop ==
  /\ [][(capturing /\ Trigger) =>
          /\ capturing'
          /\ UNCHANGED <<overlay_ref, editor_ref, live, started, notifications>>]_vars
  /\ [](Cardinality(live) <= 1)

(* a capture is in progress in its editor, after an earlier capture has
   completed *)
C27_Witness ==
  /\ capturing /\ started >= 2 /\ editor_ref # NoRef
  /\ live = {[id |-> started, stage |-> "editor"]}

(* the completion sink runs with arguments r *)
CaptureDoneWith(r) ==
  \/ OverlayFinished(r)
  \/ EditorFinished(r)
  \/ /\ ~capturing
     /\ \/ r = ScreenshotFailed /\ TriggerCapture(FALSE)
        \/ r = ScreenshotFailed /\ TriggerWindowCapture(FALSE)
             /\ platform_name = "Windows"
        \/ r = ScreenshotFailed
             /\ \E c \in BOOLEAN, f \in BOOLEAN : TriggerFullscreen(FALSE, c, f)
        \/ \E c \in BOOLEAN, f \in BOOLEAN :
             /\ r = FinishResult(started + 1, c, f)
             /\ TriggerFullscreen(TRUE, c, f)

(* C28: after _on_capture_done runs, capturing is False and the overlay and
   editor references are cleared; with error "cancelled" no notification is
   shown and the history is unchanged; with any other non-null error a
   failure notification is shown and the history is unchanged; with a null
   error and a path the path is appended to the history and a success
   notification is shown. *)
C28_CompletionSink ==
  [][\A r \in AllResults :
       CaptureDoneWith(r) =>
         /\ ~capturing' /\ overlay_ref' = NoRef /\ editor_ref' = NoRef
         /\ r.error = "cancelled" =>
              UNCHANGED <<notifications, capture_history>>
         /\ (r.error # "cancelled" /\ r.error # "None") =>
              /\ notifications'.count = notifications.count + 1
              /\ notifications'.icon = "Critical"
              /\ UNCHANGED capture_history
         /\ (r.error = "None" /\ r.path # NoPath) =>
              /\ notifications'.count = notifications.count + 1
              /\ notifications'.icon = "Information"
              /\ capture_history' # << >>
              /\ capture_history'[Len(capture_history')] = r.path]_vars

(* a capture has been saved and reported, and a later one has failed with a
   notification *)
C28_Witness ==
  /\ ~capturing /\ capture_history # << >>
  /\ notifications.count >= 2 /\ notifications.icon = "Critical"

(* the last n elements of a sequence *)
LastN(seq, n) ==
  IF Len(seq) <= n THEN seq ELSE SubSeq(seq, Len(seq) - n + 1, Len(seq))

(* C29: after any sequence of capture completions the history holds at most
   MAX_HISTORY (5) paths, and they are exactly the most recent successfully
   saved paths in completion order. *)
C29_HistoryIsLastFiveSaved ==
  /\ Len(capture_history) <= 5
  /\ capture_history = LastN(saved_paths, 5)

(* six captures have been saved and the first has left the history *)
C29_Witness ==
  /\ Len(saved_paths) = 6 /\ Len(capture_history) = 5
  /\ capture_history[1] = saved_paths[2]

(* the processes that have returned from acquire_single_instance and are
   still running *)
Running == {p \in Procs : procs[p].pc = "running"}

(* C30: only one instance runs at a time: while a process that returned
   from acquire_single_instance is still running and holding its lock,
   every other process calling it exits instead of returning, however long
   the first has been running. *)
C30_SingleInstance ==
  \A p \in Running : \A q \in Running :
    files[procs[p].fh].holder = p => q = p

(* C32: migrate_config adds every missing key with its default value, never
   changes the value of a key already present (other than raising
   config_version to the current version), returns True exactly when it
   changed the configuration, and a second application changes nothing and
   returns False. *)
C32_MigrateFillsDefaultsOnce ==
  [][migrate_returns' # migrate_returns =>
       /\ DOMAIN config' = DOMAIN config \cup DOMAIN DEFAULT_CONFIG
       /\ \A k \in DOMAIN DEFAULT_CONFIG \ DOMAIN config :
            config'[k] = DEFAULT_CONFIG[k]
       /\ \A k \in DOMAIN config \ {"config_version"} : config'[k] = config[k]
       /\ "config_version" \in DOMAIN config =>
            \/ config'["config_version"] = config["config_version"]
            \/ /\ config["config_version"] < CONFIG_VERSION
               /\ config'["config_version"] = CONFIG_VERSION
       /\ migrate_returns'[Len(migrate_returns')] = (config' # config)
       /\ Len(migrate_returns) >= 1 =>
            /\ config' = config
            /\ migrate_returns'[Len(migrate_returns')] = FALSE]_vars

(* a configuration of version 4 with a user's format, an unknown key and
   annotate_alt_tool missing has been migrated twice *)
C32_Witness ==
  /\ migrate_returns = <<TRUE, FALSE>>
  /\ config["format"] = "png"
  /\ "legacy_key" \in DOMAIN config
  /\ config["config_version"] = CONFIG_VERSION
  /\ config["annotate_alt_tool"] = "text"

(* C31: a burst of one or more setting changes results in exactly one
   on_change call carrying the dialog's current configuration: on_change is
   not called while the debounce timer is pending, it is called once when
   the timer expires or, if the dialog is closed first, once by done(),
   which also stops the timer; done() with no pending timer does not call
   on_change. *)
C31_OneCallPerBurst ==
  /\ [](Len(on_change_calls) + (IF _save_timer THEN 1 ELSE 0) = bursts)
  /\ [](~dialog_open => ~_save_timer)
  /\ [][/\ changes' # changes => on_change_calls' = on_change_calls
        /\ (_save_timer /\ ~_save_timer') =>
             on_change_calls' = Append(on_change_calls, GetConfig)
        /\ (~_save_timer /\ ~dialog_open') =>
             on_change_calls' = on_change_calls]_vars

(* two changes in one burst were flushed by the timer, a third change was
   flushed by done(): two calls, the first with the configuration after the
   second change *)
C31_Witness ==
  /\ ~dialog_open
  /\ changes = 3
  /\ bursts = 2
  /\ Len(on_change_calls) = 2
  /\ on_change_calls[1] = [format |-> "png", save_to_disk |-> FALSE]
  /\ on_change_calls[2] = [format |-> "jpg", save_to_disk |-> FALSE]

(* the order in which a stored hotkey lists its modifiers *)
ModifierRank(token) ==
  CASE token = "<ctrl>" -> 1
    [] token = "<alt>" -> 2
    [] token = "<shift>" -> 3
    [] token = "<cmd>" -> 4
    [] OTHER -> 0

(* the event just received is a key press that records a combination: the
   field was recording, the key is neither a modifier nor Escape, it has a
   token, and a modifier is held *)
RecordsCombination ==
  /\ last_event'.kind = "key"
  /\ _recording
  /\ last_event'.key \notin {Key_Control, Key_Shift, Key_Alt, Key_Meta, Key_Escape}
  /\ last_event'.mods # {}
  /\ KeyToPynput(last_event'.key) # NoToken

(* C40: the stored value of a hotkey field changes only by a key press
   received while recording that has at least one modifier and a mappable
   non-modifier key; any other event leaves it unchanged; the changed signal
   is emitted exactly when the value is set; the value set lists its
   modifiers in the order ctrl, alt, shift, cmd followed by one key token. *)
C40_HotkeyRecording ==
  [][/\ _value' # _value => RecordsCombination
     /\ changed_emitted' # changed_emitted <=> RecordsCombination
     /\ RecordsCombination =>
          /\ changed_emitted' = changed_emitted + 1
          /\ Len(_value') = Cardinality(last_event'.mods) + 1
          /\ ModifierRank(_value'[Len(_value')]) = 0
          /\ \A i \in 1..(Len(_value') - 1) :
               /\ ModifierRank(_value'[i]) > 0
               /\ i > 1 => ModifierRank(_value'[i - 1]) < ModifierRank(_value'[i])]_vars

(* alt+shift+cmd+F12 has been recorded *)
C40_Witness ==
  /\ _value = <<"<alt>", "<shift>", "<cmd>", "<f12>">>
  /\ ~_recording
  /\ changed_emitted = 1
  /\ last_event.kind = "key"

(* the invariant of each annotation variant *)
ValidAnnotation(ann) ==
  CASE ann.kind = "freehand" -> Len(ann.points) >= 2
    [] ann.kind = "arrow" ->
         ArrowLen2(ann) >= (MIN_DRAG_SIZE * Unit) * (MIN_DRAG_SIZE * Unit)
    [] ann.kind \in {"oval", "rect"} ->
         /\ ann.rect.w >= 0
         /\ ann.rect.h >= 0
         /\ ann.rect.w >= MIN_DRAG_SIZE * Unit \/ ann.rect.h >= MIN_DRAG_SIZE * Unit
    [] ann.kind = "text" -> \E i \in 1..Len(ann.text) : ann.text[i] \notin Whitespace
    [] OTHER -> FALSE

(* C33: in every reachable state every committed annotation satisfies its
   variant's invariant: a freehand has at least 2 points, an arrow has
   length at least 3, an oval or rect has a normalized rect with width or
   height at least 3, a text has non-empty content after trimming. *)
C33_CommittedAreValid ==
  \A i \in 1..Len(undo_stack) : ValidAnnotation(undo_stack[i])

(* a text and an arrow are committed, and a freehand stroke of one point is
   in progress (a pointer-up now discards it) *)
C33_Witness ==
  /\ Len(undo_stack) = 2
  /\ undo_stack[1].kind = "text"
  /\ undo_stack[2].kind = "arrow"
  /\ drawing
  /\ current_ann # NoAnn
  /\ current_ann.kind = "freehand"
  /\ Len(current_ann.points) = 1

(* C34: a pointer-move in DraggingText state changes only the position of
   the committed text annotation at the stored index, to the clamped pointer
   position plus the grab offset recorded at pointer-down; the length and
   order of committed, every other annotation and redo are unchanged, and
   the move is not an undo step (the undo and redo buttons are unchanged). *)
C34_TextDragMovesOnlyPosition ==
  [][\A sp \in MovePoints \cup MovePointsScaled :
       (InDraggingText /\ MouseMove(sp)) =>
         /\ Len(undo_stack') = Len(undo_stack)
         /\ \A i \in 1..Len(undo_stack) :
              IF i = dragging_text_idx
              THEN /\ undo_stack'[i].kind = "text"
                   /\ undo_stack'[i].text = undo_stack[i].text
                   /\ undo_stack'[i].color = undo_stack[i].color
                   /\ undo_stack'[i].font_size = undo_stack[i].font_size
                   /\ undo_stack'[i].position =
                        [x |-> ClampToImage(sp).x + text_drag_offset.x,
                         y |-> ClampToImage(sp).y + text_drag_offset.y]
              ELSE undo_stack'[i] = undo_stack[i]
         /\ redo_stack' = redo_stack
         /\ undo_enabled' = undo_enabled
         /\ redo_enabled' = redo_enabled
         /\ dragging_text_idx' = dragging_text_idx
         /\ text_drag_offset' = text_drag_offset]_vars

(* the first of two committed annotations is a text that has been dragged
   away from where it was placed, and the drag is still going on *)
C34_Witness ==
  /\ InDraggingText
  /\ Len(undo_stack) = 2
  /\ dragging_text_idx = 1
  /\ undo_stack[1].kind = "text"
  /\ undo_stack[1].position # RawImageCoords(PtFar)
  /\ undo_stack[2].kind # "text"

(* a pointer-move that finds the editor drawing a shape *)
DrawingMove(sp) == InDrawing /\ MouseMove(sp)

(* What holds of C35, the pointer events alone: during a Drawing gesture
   the in-progress annotation keeps the variant, color and width chosen at
   pointer-down, and each pointer-move updates it: a freehand gains exactly one point, the clamped pointer
   position, after a path that starts at the down-point; an arrow keeps its
   start at the down-point and gets the clamped position as its end; an oval
   or rect becomes the normalized rectangle spanned by the down-point and
   the clamped position.  The pointer events of the gesture leave committed
   and redo unchanged. *)
PointerEventsUpdateInProgress ==
  /\ [](InDrawing =>
          CASE current_ann.kind = "freehand" ->
                 /\ Len(current_ann.points) >= 1
                 /\ current_ann.points[1] = drag_start
            [] current_ann.kind = "arrow" -> current_ann.start = drag_start
            [] OTHER -> current_ann.rect.w >= 0 /\ current_ann.rect.h >= 0)
  /\ [][\A sp \in MovePoints \cup MovePointsScaled :
          DrawingMove(sp) =>
            LET pos == ClampToImage(sp)
            IN /\ InDrawing'
               /\ current_ann'.kind = current_ann.kind
               /\ current_ann'.color = current_ann.color
               /\ current_ann'.width = current_ann.width
               /\ drag_start' = drag_start
               /\ undo_stack' = undo_stack
               /\ redo_stack' = redo_stack
               /\ CASE current_ann.kind = "freehand" ->
                        current_ann'.points = Append(current_ann.points, pos)
                    [] current_ann.kind = "arrow" ->
                        /\ current_ann'.start = drag_start
                        /\ current_ann'.end = pos
                    [] OTHER ->
                        /\ current_ann'.rect.x = Min(drag_start.x, pos.x)
                        /\ current_ann'.rect.y = Min(drag_start.y, pos.y)
                        /\ current_ann'.rect.w = Abs(drag_start.x - pos.x)
                        /\ current_ann'.rect.h = Abs(drag_start.y - pos.y)]_vars
  /\ [][(~InDrawing /\ InDrawing') =>
          /\ undo_stack' = undo_stack
          /\ redo_stack' = redo_stack
          /\ current_ann' = NewAnnotation(current_ann'.kind, drag_start')]_vars

(* C35: during a Drawing gesture the in-progress annotation is updated by
   the pointer-moves as PointerEventsUpdateInProgress states, and committed
   and redo are unchanged throughout the gesture, from pointer-down to
   pointer-up. *)
C35_CommittedFixedThroughout ==
  [][(InDrawing /\ InDrawing') =>
       /\ undo_stack' = undo_stack
       /\ redo_stack' = redo_stack]_vars

(* C36: whenever the dragged-text index is set it is a valid index into
   committed and the annotation there is a text annotation; as long as the
   index stays the same, no undo, redo, text confirmation or other event
   removes that annotation, moves it to another index or changes it; only
   a pointer-move changes its position. *)
C36_DragIndexStaysValid ==
  /\ [](dragging_text_idx # NoIdx =>
          /\ dragging_text_idx \in 1..Len(undo_stack)
          /\ undo_stack[dragging_text_idx].kind = "text"
          /\ drawing)
  /\ [][(dragging_text_idx # NoIdx /\ dragging_text_idx' = dragging_text_idx
         /\ ~closed') =>
          /\ Len(undo_stack') >= Len(undo_stack)
          /\ \A i \in 1..Len(undo_stack) :
               i # dragging_text_idx => undo_stack'[i] = undo_stack[i]
          /\ \/ undo_stack'[dragging_text_idx] = undo_stack[dragging_text_idx]
             \/ /\ \E sp \in MovePoints \cup MovePointsScaled : MouseMove(sp)
                /\ [undo_stack'[dragging_text_idx] EXCEPT !.position = [x |-> 0, y |-> 0]]
                     = [undo_stack[dragging_text_idx] EXCEPT !.position = [x |-> 0, y |-> 0]]]_vars

(* a text is being dragged while a text input opened before the drag has
   been confirmed: committed grew behind the dragged annotation *)
C36_Witness ==
  /\ dragging_text_idx = 1
  /\ Len(undo_stack) = 2
  /\ undo_stack[2].kind = "text"
  /\ text_input = NoInput
  /\ drawing

(* C37: after every editor operation (commit, text confirm, discard, undo,
   redo) the Undo button is enabled exactly when committed is non-empty and
   the Redo button exactly when redo is non-empty. *)
C37_ButtonsFollowStacks ==
  /\ undo_enabled <=> Len(undo_stack) > 0
  /\ redo_enabled <=> Len(redo_stack) > 0

(* one annotation is committed and one has been undone: both buttons are
   enabled *)
C37_Witness ==
  /\ Len(undo_stack) = 1
  /\ Len(redo_stack) = 1
  /\ undo_enabled
  /\ redo_enabled
  /\ ~closed

(* a left pointer-down at screen point sp with the modifiers mods that the
   text tool answers by opening a text input: inside the image, off the
   toolbar, not on a committed text *)
OpensTextInput(sp, mods) ==
  /\ ~RectContains(ToolbarGeom, sp)
  /\ ToImageCoords(sp) # NoPoint
  /\ ToolFromModifiers(mods, _modifier_tools, cur_tool) = "text"
  /\ HitTestText(undo_stack, ToImageCoords(sp)) = NoIdx
  /\ MousePress("left", sp, mods)

(* C39: at most one text input is active at any time: a text-tool
   pointer-down that opens a text input while one is already active removes
   the earlier one, the only input left is the new one at the new position,
   and the earlier pending text is dropped without committing anything. *)
C39_OneTextInput ==
  /\ [](text_input # NoInput =>
          /\ DOMAIN text_input = {"image_pos"}
          /\ text_input.image_pos \in
               {ToImageCoords(i[2]) : i \in PressInputsText})
  /\ [][\A i \in PressInputsText :
          (text_input # NoInput /\ OpensTextInput(i[2], i[3])) =>
            /\ text_input' = [image_pos |-> ToImageCoords(i[2])]
            /\ undo_stack' = undo_stack
            /\ redo_stack' = redo_stack
            /\ undo_enabled' = undo_enabled
            /\ redo_enabled' = redo_enabled]_vars

(* a text input is active at the second text position while the text
   committed at the first one has been undone: nothing was committed by
   opening it *)
C39_Witness ==
  /\ text_input # NoInput
  /\ text_input.image_pos = ToImageCoords(PtA)
  /\ undo_stack = << >>
  /\ Len(redo_stack) = 1
  /\ redo_stack[1].position = ToImageCoords(PtFar)
  /\ ~drawing

(* C38: a capture flag that is set belongs to a session whose overlay or
   editor still exists: every way a session's window goes away (completed
   capture, too-small selection, Escape, right-click, screenshot failure,
   the window closed by the window manager) resets capturing, so no later
   trigger is blocked by a capture that no longer exists. *)
C38_CapturingOnlyWhileSessionLives == capturing => live # {}

====
